---- MODULE Spec2Model ----
(***************************************************************************)
(* A model of the z3 crate (src/z3/src): the wrappers around the engine's  *)
(* reference-counted, context-scoped handles.  The engine itself is        *)
(* external: each Z3_mk_* call is an input, drawn from the handles the     *)
(* engine may return (NULL included).  Every operation records the engine  *)
(* calls it issues, in order, in lastOp.log, and the reference-count calls *)
(* among them are summed per handle in rc.                                 *)
(***************************************************************************)
EXTENDS Integers, Sequences, FiniteSets, Bags, TLC

\* ------------------------------------------------------------------ bounds
NumHandles == 1    \* distinct non-null handles of one type the engine returns
MaxLive == 2       \* wrappers alive at once in the lifecycle specification
MaxOther == 2      \* longest operand slice passed to a variadic operation
MaxPatterns == 1   \* most patterns passed to a quantifier
MaxDrift == 2      \* Sort::uninterpreted wrappers of one handle
MaxNames == 2      \* most variant names passed to Sort::enumeration
MaxVariants == 2   \* most variant() calls on a DatatypeBuilder
MaxFields == 2     \* most fields of one variant
MaxTrail == 4      \* most assertions, objectives and backtracking points
                   \* standing on the Optimize object at once

VARIABLES
    ctxs,       \* Context c: whether it exists, and the Z3_del_context calls on it
    wrappers,   \* the bag of live wrappers (Ast, Sort, Pattern, Params, ...)
    rc,         \* per (context, handle): increments minus decrements issued
    lastOp,     \* the most recent operation: its name, engine calls, results
    panicked,   \* an assertion failed: execution has stopped
    limit,      \* how many wrappers the program keeps alive at once
    builder,    \* the DatatypeBuilder: its state, Context and staged variants
    descriptors,\* the engine's constructor descriptors: fields, and whether live
    staged,     \* the variant() calls made on the builder, in call order
    optimizer,  \* the engine's state of the Optimize object, and what was
                \* called on it
    target_pointer_width    \* bits of isize and usize in this build

vars == <<ctxs, wrappers, rc, lastOp, panicked, limit,
          builder, descriptors, staged, optimizer, target_pointer_width>>

dtvars == <<builder, descriptors, staged>>

\* Two Context values: what it takes to mix contexts and to translate.
Ctx == {1, 2}

\* ----------------------------------------------------------------- handles
\* An engine handle is <<type, number, index>>; NULL is the null pointer.
NULL == <<"null", 0, 0>>

H(tag, i) == <<tag, i, 0>>

Handles(tag) == {H(tag, i) : i \in 1..NumHandles}

\* What a Z3_mk_* call may hand back: a handle of the type, or null on an
\* engine error.
EngineResult(tag) == Handles(tag) \cup {NULL}

\* A wrapper struct: the borrowed Context and the raw handle.
W(kind, c, h) == [kind |-> kind, ctx |-> c, h |-> h]

NoWrapper == W("none", 0, NULL)

\* One engine call: the function, the context passed as first argument, the
\* handle it is about (the result of a Z3_mk_*, the argument of an inc/dec),
\* and the owning contexts of the handles passed as operands.
Call(fn, c, h, owners) == [fn |-> fn, ctx |-> c, h |-> h, owners |-> owners]

IncFns == {"Z3_inc_ref", "Z3_params_inc_ref", "Z3_param_descrs_inc_ref",
           "Z3_stats_inc_ref", "Z3_optimize_inc_ref"}

DecFns == {"Z3_dec_ref", "Z3_params_dec_ref", "Z3_param_descrs_dec_ref",
           "Z3_stats_dec_ref", "Z3_optimize_dec_ref"}

Inc(fn, c, h) == Call(fn, c, h, {c})

Dec(fn, c, h) == Call(fn, c, h, {c})

\* ------------------------------------------------------- reference counts
RcGet(r, k) == IF k \in DOMAIN r THEN r[k] ELSE 0

RcAdd(r, k, d) ==
    LET v == RcGet(r, k) + d
    IN  IF v = 0
        THEN [x \in DOMAIN r \ {k} |-> r[x]]
        ELSE [x \in DOMAIN r \cup {k} |-> IF x = k THEN v ELSE r[x]]

RcDelta(call) ==
    IF call.fn \in IncFns THEN 1 ELSE IF call.fn \in DecFns THEN -1 ELSE 0

RECURSIVE ApplyLog(_, _)
ApplyLog(r, log) ==
    IF log = <<>> THEN r
    ELSE LET call == Head(log)
         IN  ApplyLog(IF RcDelta(call) = 0 THEN r
                      ELSE RcAdd(r, <<call.ctx, call.h>>, RcDelta(call)),
                      Tail(log))

RECURSIVE SeqToBag(_)
SeqToBag(s) ==
    IF s = <<>> THEN EmptyBag ELSE SetToBag({Head(s)}) (+) SeqToBag(Tail(s))

Live == BagToSet(wrappers)

LiveOf(kind) == {w \in Live : w.kind = kind}

\* Wrappers alive that own handle h of context c.
RECURSIVE Copies(_)
Copies(ws) ==
    IF ws = {} THEN 0
    ELSE LET w == CHOOSE x \in ws : TRUE
         IN  CopiesIn(w, wrappers) + Copies(ws \ {w})

Owners(c, h) == Copies({w \in Live : w.ctx = c /\ w.h = h})

\* The outcome of an operation: whether it returned (no assertion failed),
\* the engine calls it issued, and the wrappers it returned.
Outcome(ok, log, res) == [ok |-> ok, log |-> log, res |-> res]

\* The operation `op` ran on receiver (or main operand) `w` with `n` further
\* operands (for some operations `n` is the further argument itself); `cs`
\* are the Contexts of its context argument and its operands.
Effect(op, w, n, cs, out, ret) ==
    /\ wrappers' = wrappers (+) SeqToBag(out.res)
    /\ rc' = ApplyLog(rc, out.log)
    /\ lastOp' = [op |-> op, w |-> w, n |-> n, cs |-> cs, ok |-> out.ok,
                  log |-> out.log, res |-> out.res, ret |-> ret]
    /\ panicked' = ~out.ok
    /\ UNCHANGED <<ctxs, limit, target_pointer_width>>

Done(op, w, n, cs, out) ==
    /\ Effect(op, w, n, cs, out, <<>>)
    /\ UNCHANGED <<dtvars, optimizer>>

\* A wrapper is dropped: its Drop impl issues `log`.
Dropped(op, w, log) ==
    /\ wrappers' = wrappers (-) SetToBag({w})
    /\ rc' = ApplyLog(rc, log)
    /\ lastOp' = [op |-> op, w |-> w, n |-> 0, cs |-> {w.ctx}, ok |-> TRUE,
                  log |-> log, res |-> <<>>, ret |-> <<>>]
    /\ UNCHANGED <<ctxs, panicked, limit, dtvars, optimizer,
                 target_pointer_width>>

\* A reference `&'ctx Context` exists only while the Context does.
Borrowable(c) == ctxs[c].state = "live"

Room(n) == BagCardinality(wrappers) + n <= limit

Running == ~panicked

NoBuilder == [state |-> "none", ctx |-> 0, variants |-> <<>>]

\* No Optimize object: nothing asserted, no backtracking point, no model.
NoOptimizer ==
    [hard |-> {}, objectives |-> <<>>, scopes |-> <<>>, model |-> FALSE,
     trail |-> <<>>, undone |-> <<>>, last |-> "none", stale |-> FALSE,
     violated |-> FALSE]

\* ----------------------------------------------------------------- Context
Context_new(c) ==
    /\ Running
    /\ ctxs[c].state = "unborn"
    /\ ctxs' = [ctxs EXCEPT ![c].state = "live"]
    /\ lastOp' = [op |-> "Context::new", w |-> NoWrapper, n |-> 0, cs |-> {c},
                  ok |-> TRUE,
                  log |-> <<Call("Z3_mk_context_rc", c, NULL, {})>>,
                  res |-> <<>>, ret |-> <<>>]
    /\ UNCHANGED <<wrappers, rc, panicked, limit, dtvars, optimizer,
                 target_pointer_width>>

\* A Context that children would not borrow (a raw pointer to it, say).
Unborrowed_unchecked(c) == TRUE

\* Every child struct holds `ctx: &'ctx Context`: the Context cannot be moved
\* or dropped while a child is alive.
Unborrowed(c) ==
    /\ \A w \in Live : w.ctx # c
    /\ builder.state = "building" => builder.ctx # c

Context_drop(c) ==
    /\ ctxs[c].state = "live"
    /\ Unborrowed(c)
    /\ ctxs' = [ctxs EXCEPT ![c] = [state |-> "dropped", dels |-> @.dels + 1]]
    /\ lastOp' = [op |-> "Context::drop", w |-> NoWrapper, n |-> 0, cs |-> {c},
                  ok |-> TRUE,
                  log |-> <<Call("Z3_del_context", c, NULL, {})>>,
                  res |-> <<>>, ret |-> <<>>]
    /\ UNCHANGED <<wrappers, rc, panicked, limit, dtvars, optimizer,
                 target_pointer_width>>

\* --------------------------------------------------------------------- Ast
\* Ast::new without its Z3_inc_ref.
AstNew_no_inc(c, h, pre) ==
    IF h = NULL
    THEN Outcome(FALSE, pre, <<>>)
    ELSE Outcome(TRUE, pre, <<W("Ast", c, h)>>)

\* Ast::new(ctx, ast), after the engine calls `pre` that produced `ast`.
AstNew(c, h, pre) ==
    IF h = NULL
    THEN Outcome(FALSE, pre, <<>>)
    ELSE Outcome(TRUE, pre \o <<Inc("Z3_inc_ref", c, h)>>, <<W("Ast", c, h)>>)

Ast_from_bool(c, h) ==
    /\ Running /\ Borrowable(c) /\ Room(1)
    /\ Done("Ast::from_bool", NoWrapper, 0, {c},
            AstNew(c, h, <<Call("Z3_mk_true", c, h, {})>>))

\* from_i32 .. from_u64: a temporary Sort::int lives for the unsafe block.
Ast_from_i64(c, s, h) ==
    /\ Running /\ Borrowable(c) /\ Room(1)
    /\ Done("Ast::from_i64", NoWrapper, 0, {c},
            AstNew(c, h, <<Call("Z3_mk_int_sort", c, s, {}),
                           Inc("Z3_inc_ref", c, s),
                           Call("Z3_mk_int64", c, h, {c}),
                           Dec("Z3_dec_ref", c, s)>>))

Ast_clone(w) ==
    /\ Running /\ Room(1)
    /\ Done("Ast::clone", w, 0, {w.ctx}, AstNew(w.ctx, w.h, <<>>))

AstDropLog(w) == <<Dec("Z3_dec_ref", w.ctx, w.h)>>

Ast_drop(w) ==
    /\ Running
    /\ Dropped("Ast::drop", w, AstDropLog(w))

\* translate wrapping its result in the source's Context.
Ast_translate_in_source(w, dest, h) ==
    /\ Running /\ Borrowable(dest) /\ Room(1)
    /\ Done("Ast::translate", w, 0, {w.ctx, dest},
            AstNew(w.ctx, h, <<Call("Z3_translate", w.ctx, h, {w.ctx})>>))

\* Z3_translate(source, a, target) requires source # target: the engine
\* reports an error and returns null otherwise.
Z3_translate(source, target) ==
    IF source = target THEN {NULL} ELSE EngineResult("ast")

Ast_translate(w, dest, h) ==
    /\ Running /\ Borrowable(dest) /\ Room(1)
    /\ h \in Z3_translate(w.ctx, dest)
    /\ Done("Ast::translate", w, 0, {w.ctx, dest},
            AstNew(dest, h, <<Call("Z3_translate", w.ctx, h, {w.ctx})>>))

\* unop!: one receiver, one engine call.
Ast_unop(w, h) ==
    /\ Running /\ Room(1)
    /\ Done("Ast::unop", w, 0, {w.ctx},
            AstNew(w.ctx, h, <<Call("unop!", w.ctx, h, {w.ctx})>>))

\* -------------------------------------------------------------------- Sort
\* The struct literal of bool, int, real, bitvector, array, set: the engine's
\* result is incremented and wrapped as it is.
SortNew(c, s, pre) ==
    Outcome(TRUE, pre \o <<Inc("Z3_inc_ref", c, s)>>, <<W("Sort", c, s)>>)

Sort_bool(c, s) ==
    /\ Running /\ Borrowable(c) /\ Room(1)
    /\ Done("Sort::bool", NoWrapper, 0, {c},
            SortNew(c, s, <<Call("Z3_mk_bool_sort", c, s, {})>>))

Sort_int(c, s) ==
    /\ Running /\ Borrowable(c) /\ Room(1)
    /\ Done("Sort::int", NoWrapper, 0, {c},
            SortNew(c, s, <<Call("Z3_mk_int_sort", c, s, {})>>))

Sort_real(c, s) ==
    /\ Running /\ Borrowable(c) /\ Room(1)
    /\ Done("Sort::real", NoWrapper, 0, {c},
            SortNew(c, s, <<Call("Z3_mk_real_sort", c, s, {})>>))

Sort_bitvector(c, s) ==
    /\ Running /\ Borrowable(c) /\ Room(1)
    /\ Done("Sort::bitvector", NoWrapper, 0, {c},
            SortNew(c, s, <<Call("Z3_mk_bv_sort", c, s, {})>>))

Sort_array(c, domain, range, s) ==
    /\ Running /\ Borrowable(c) /\ Room(1)
    /\ Done("Sort::array", domain, 1, {c, domain.ctx, range.ctx},
            SortNew(c, s, <<Call("Z3_mk_array_sort", c, s,
                                 {domain.ctx, range.ctx})>>))

Sort_set(c, elt, s) ==
    /\ Running /\ Borrowable(c) /\ Room(1)
    /\ Done("Sort::set", elt, 0, {c, elt.ctx},
            SortNew(c, s, <<Call("Z3_mk_set_sort", c, s, {elt.ctx})>>))

\* The symbol is a Symbol of context sc.  No increment is issued.
Sort_uninterpreted(c, sc, s) ==
    /\ Running /\ Borrowable(c) /\ Borrowable(sc) /\ Room(1)
    /\ Done("Sort::uninterpreted", NoWrapper, 1, {c, sc},
            Outcome(TRUE, <<Call("Z3_mk_uninterpreted_sort", c, s, {sc})>>,
                    <<W("Sort", c, s)>>))

Sort_drop(w) ==
    /\ Running
    /\ Dropped("Sort::drop", w, <<Dec("Z3_dec_ref", w.ctx, w.h)>>)

\* ----------------------------------------------------------------- Pattern
\* All sequences over S of length lo..hi.
Seqs(S, lo, hi) == UNION {[1..k -> S] : k \in lo..hi}

CtxsOf(ws) == {ws[i].ctx : i \in DOMAIN ws}

Pattern_new(c, terms, a) ==
    /\ Running /\ Borrowable(c) /\ Room(1)
    /\ Done("Pattern::new", NoWrapper, Len(terms), {c} \cup CtxsOf(terms),
            IF \E i \in DOMAIN terms : terms[i].ctx # c
            THEN Outcome(FALSE, <<>>, <<>>)
            ELSE Outcome(TRUE,
                         <<Call("Z3_mk_pattern", c, a, CtxsOf(terms)),
                           Inc("Z3_inc_ref", c, a)>>,
                         <<W("Pattern", c, a)>>))

Pattern_drop(w) ==
    /\ Running
    /\ Dropped("Pattern::drop", w, <<Dec("Z3_dec_ref", w.ctx, w.h)>>)

\* ------------------------------------------------------------------ Params
Params_new(c, p) ==
    /\ Running /\ Borrowable(c) /\ Room(1)
    /\ Done("Params::new", NoWrapper, 0, {c},
            Outcome(TRUE, <<Call("Z3_mk_params", c, p, {}),
                            Inc("Z3_params_inc_ref", c, p)>>,
                    <<W("Params", c, p)>>))

Params_drop(w) ==
    /\ Running
    /\ Dropped("Params::drop", w, <<Dec("Z3_params_dec_ref", w.ctx, w.h)>>)

\* ------------------------------------------------------------- ParamDescrs
\* `p` is the raw handle the caller got from the engine.
ParamDescrs_new(c, p) ==
    /\ Running /\ Borrowable(c) /\ Room(1)
    /\ Done("ParamDescrs::new", NoWrapper, 0, {c},
            Outcome(TRUE, <<Inc("Z3_param_descrs_inc_ref", c, p)>>,
                    <<W("ParamDescrs", c, p)>>))

ParamDescrs_drop(w) ==
    /\ Running
    /\ Dropped("ParamDescrs::drop", w,
               <<Dec("Z3_param_descrs_dec_ref", w.ctx, w.h)>>)

\* ------------------------------------------------------------------- Stats
\* `c` is solver.ctx of the Solver the statistics are read from.
Stats_with_solver(c, st) ==
    /\ Running /\ Borrowable(c) /\ Room(1)
    /\ Done("Stats::with_solver", NoWrapper, 0, {c},
            Outcome(TRUE, <<Call("Z3_solver_get_statistics", c, st, {c}),
                            Inc("Z3_stats_inc_ref", c, st)>>,
                    <<W("Stats", c, st)>>))

Stats_drop(w) ==
    /\ Running
    /\ Dropped("Stats::drop", w, <<Dec("Z3_stats_dec_ref", w.ctx, w.h)>>)

\* ---------------------------------------------------------------- Optimize
Optimize_new(c, opt) ==
    /\ Running /\ Borrowable(c) /\ Room(1)
    /\ Done("Optimize::new", NoWrapper, 0, {c},
            Outcome(TRUE, <<Call("Z3_mk_optimize", c, opt, {}),
                            Inc("Z3_optimize_inc_ref", c, opt)>>,
                    <<W("Optimize", c, opt)>>))

Optimize_drop(w) ==
    /\ Running
    /\ Dropped("Optimize::drop", w,
               <<Dec("Z3_optimize_dec_ref", w.ctx, w.h)>>)

\* ---------------------------------------------------------- Ast operations
\* A usize value hi * 2^32 + lo, with 0 <= lo < 2^32.
USize(hi, lo) == [hi |-> hi, lo |-> lo]

\* n <= 0xffff_ffff: the value converts to the engine's `unsigned`.
FitsU32(n) == n.hi = 0

\* binop!: receiver and one operand.
Ast_binop(w, other, h) ==
    /\ Running /\ Room(1)
    /\ Done("Ast::binop", w, 1, {w.ctx, other.ctx},
            AstNew(w.ctx, h, <<Call("binop!", w.ctx, h, {w.ctx, other.ctx})>>))

\* binop_bool!: receiver, one operand and a flag.
Ast_binop_bool(w, other, b, h) ==
    /\ Running /\ Room(1)
    /\ Done("Ast::binop_bool", w, 1, {w.ctx, other.ctx},
            AstNew(w.ctx, h,
                   <<Call("binop_bool!", w.ctx, h, {w.ctx, other.ctx})>>))

\* trinop!: receiver and two operands.
Ast_trinop(w, a, b, h) ==
    /\ Running /\ Room(1)
    /\ Done("Ast::trinop", w, 2, {w.ctx, a.ctx, b.ctx},
            AstNew(w.ctx, h,
                   <<Call("trinop!", w.ctx, h, {w.ctx, a.ctx, b.ctx})>>))

\* varop!: tmp is the receiver followed by `other`.
Ast_varop(w, other, h) ==
    /\ Running /\ Room(1)
    /\ Done("Ast::varop", w, Len(other), {w.ctx} \cup CtxsOf(other),
            LET tmp == <<w>> \o other
            IN  IF ~FitsU32(USize(0, Len(tmp)))
                THEN Outcome(FALSE, <<>>, <<>>)
                ELSE AstNew(w.ctx, h,
                            <<Call("varop!", w.ctx, h, CtxsOf(tmp))>>))

\* Z3_is_eq_ast: the two handles are one term of one context.
Z3_is_eq_ast_always(a, b) == TRUE

Z3_is_eq_ast(a, b) == a.ctx = b.ctx /\ a.h = b.h

\* PartialEq for Ast: the engine call compares self.z3_ast with other.z3_ast.
Ast_eq(w, other) ==
    /\ Running
    /\ Effect("Ast::eq", w, 1, {w.ctx, other.ctx},
              Outcome(TRUE, <<Call("Z3_is_eq_ast", w.ctx, other.h,
                                   {w.ctx, other.ctx})>>, <<>>),
              Z3_is_eq_ast(w, other))
    /\ UNCHANGED <<dtvars, optimizer>>

\* PartialEq for Sort.
Sort_eq(w, other) ==
    /\ Running
    /\ Done("Sort::eq", w, 1, {w.ctx, other.ctx},
            Outcome(TRUE, <<Call("Z3_is_eq_sort", w.ctx, NULL,
                                 {w.ctx, other.ctx})>>, <<>>))

\* The symbol is a Symbol of context sc, which becomes the term's context.
Ast_new_const(sc, sort, h) ==
    /\ Running /\ Borrowable(sc) /\ Room(1)
    /\ Done("Ast::new_const", sort, 1, {sc, sort.ctx},
            AstNew(sc, h, <<Call("Z3_mk_const", sc, h, {sc, sort.ctx})>>))

Ast_fresh_const(c, sort, h) ==
    /\ Running /\ Borrowable(c) /\ Room(1)
    /\ Done("Ast::fresh_const", sort, 0, {c, sort.ctx},
            AstNew(c, h, <<Call("Z3_mk_fresh_const", c, h, {sort.ctx})>>))

\* forall_const_weight_patterns without the empty-bounds return.
ForallOutcome_always_quantify(c, weight, bounds, patterns, body, h) ==
    IF \/ \E i \in DOMAIN bounds : bounds[i].ctx # c
       \/ \E i \in DOMAIN patterns : patterns[i].ctx # c
       \/ body.ctx # c
    THEN Outcome(FALSE, <<>>, <<>>)
    ELSE IF ~FitsU32(weight)
    THEN Outcome(FALSE, <<>>, <<>>)
    ELSE AstNew(c, h,
                <<Call("Z3_mk_forall_const", c, h,
                       CtxsOf(bounds) \cup CtxsOf(patterns) \cup {body.ctx})>>)

\* Ast::forall_const_weight_patterns.
ForallOutcome(c, weight, bounds, patterns, body, h) ==
    IF \/ \E i \in DOMAIN bounds : bounds[i].ctx # c
       \/ \E i \in DOMAIN patterns : patterns[i].ctx # c
       \/ body.ctx # c
    THEN Outcome(FALSE, <<>>, <<>>)
    ELSE IF bounds = <<>>
    THEN AstNew(body.ctx, body.h, <<>>)
    ELSE IF ~FitsU32(weight)
    THEN Outcome(FALSE, <<>>, <<>>)
    ELSE AstNew(c, h,
                <<Call("Z3_mk_forall_const", c, h,
                       CtxsOf(bounds) \cup CtxsOf(patterns) \cup {body.ctx})>>)

\* Ast::exists_const.
ExistsOutcome(c, bounds, body, h) ==
    IF \/ \E i \in DOMAIN bounds : bounds[i].ctx # c
       \/ body.ctx # c
    THEN Outcome(FALSE, <<>>, <<>>)
    ELSE IF bounds = <<>>
    THEN AstNew(body.ctx, body.h, <<>>)
    ELSE AstNew(c, h,
                <<Call("Z3_mk_exists_const", c, h,
                       CtxsOf(bounds) \cup {body.ctx})>>)

Ast_forall_const_weight_patterns(c, weight, bounds, patterns, body, h) ==
    /\ Running /\ Borrowable(c) /\ Room(1)
    /\ Done("Ast::forall_const_weight_patterns", body, Len(bounds),
            {c, body.ctx} \cup CtxsOf(bounds) \cup CtxsOf(patterns),
            ForallOutcome(c, weight, bounds, patterns, body, h))

Ast_forall_const(c, bounds, body, h) ==
    /\ Running /\ Borrowable(c) /\ Room(1)
    /\ Done("Ast::forall_const", body, Len(bounds),
            {c, body.ctx} \cup CtxsOf(bounds),
            ForallOutcome(c, USize(0, 0), bounds, <<>>, body, h))

Ast_exists_const(c, bounds, body, h) ==
    /\ Running /\ Borrowable(c) /\ Room(1)
    /\ Done("Ast::exists_const", body, Len(bounds),
            {c, body.ctx} \cup CtxsOf(bounds),
            ExistsOutcome(c, bounds, body, h))

\* ---------------------------------------------------------- Params setters
\* set_bool, set_uint, set_f64: the key is a Symbol of context kc.
Params_set(w, kc) ==
    /\ Running /\ Borrowable(kc)
    /\ Done("Params::set_bool", w, 1, {w.ctx, kc},
            IF w.ctx # kc
            THEN Outcome(FALSE, <<>>, <<>>)
            ELSE Outcome(TRUE, <<Call("Z3_params_set_bool", w.ctx, w.h,
                                      {w.ctx, kc})>>, <<>>))

Params_set_symbol(w, kc, vc) ==
    /\ Running /\ Borrowable(kc) /\ Borrowable(vc)
    /\ Done("Params::set_symbol", w, 2, {w.ctx, kc, vc},
            IF w.ctx # kc \/ w.ctx # vc
            THEN Outcome(FALSE, <<>>, <<>>)
            ELSE Outcome(TRUE, <<Call("Z3_params_set_symbol", w.ctx, w.h,
                                      {w.ctx, kc, vc})>>, <<>>))

Params_validate(w, d) ==
    /\ Running
    /\ Done("Params::validate", w, 1, {w.ctx, d.ctx},
            IF w.ctx # d.ctx
            THEN Outcome(FALSE, <<>>, <<>>)
            ELSE Outcome(TRUE, <<Call("Z3_params_validate", w.ctx, w.h,
                                      {w.ctx, d.ctx})>>, <<>>))

\* ------------------------------------------------------- Sort::enumeration
\* Z3_mk_enumeration_sort fills one constant and one tester declaration per
\* name into the out arrays; on an error it returns null and leaves them as
\* they were allocated, null.
EnumConst(s, i) == IF s = NULL THEN NULL ELSE <<"decl.enum_const", s[2], i>>

EnumTester(s, i) == IF s = NULL THEN NULL ELSE <<"decl.enum_tester", s[2], i>>

\* The increments without the loop over the testers.
EnumerationIncs_no_testers(c, s, enum_consts, enum_testers) ==
    <<Inc("Z3_inc_ref", c, s)>>
    \o [i \in DOMAIN enum_consts |-> Inc("Z3_inc_ref", c, enum_consts[i])]

\* The increments of Sort::enumeration: the sort, then the two loops.
EnumerationIncs(c, s, enum_consts, enum_testers) ==
    <<Inc("Z3_inc_ref", c, s)>>
    \o [i \in DOMAIN enum_consts |-> Inc("Z3_inc_ref", c, enum_consts[i])]
    \o [i \in DOMAIN enum_testers |-> Inc("Z3_inc_ref", c, enum_testers[i])]

\* The testers converted in reverse.
EnumerationReturn_testers_reversed(c, enum_names, s) ==
    [sort |-> W("Sort", c, s),
     consts |-> [i \in DOMAIN enum_names |-> W("FuncDecl", c, EnumConst(s, i))],
     testers |-> [i \in DOMAIN enum_names |->
                    W("FuncDecl", c, EnumTester(s, Len(enum_names) + 1 - i))]]

\* `name` is a Symbol of Context nc; enum_names are Symbols of the Contexts
\* listed.  The value returned is (sort, enum_consts, enum_testers).
EnumerationReturn(c, enum_names, s) ==
    [sort |-> W("Sort", c, s),
     consts |-> [i \in DOMAIN enum_names |-> W("FuncDecl", c, EnumConst(s, i))],
     testers |-> [i \in DOMAIN enum_names |-> W("FuncDecl", c, EnumTester(s, i))]]

EnumerationOutcome(c, nc, enum_names, s) ==
    IF nc # c \/ \E i \in DOMAIN enum_names : enum_names[i] # c
    THEN Outcome(FALSE, <<>>, <<>>)
    ELSE LET r == EnumerationReturn(c, enum_names, s)
         IN  Outcome(TRUE,
                     <<Call("Z3_mk_enumeration_sort", c, s,
                            {nc} \cup {enum_names[i] : i \in DOMAIN enum_names})>>
                     \o EnumerationIncs(c, s,
                                        [i \in DOMAIN r.consts |-> r.consts[i].h],
                                        [i \in DOMAIN r.testers |-> r.testers[i].h]),
                     <<r.sort>> \o r.consts \o r.testers)

Sort_enumeration(c, nc, enum_names, s) ==
    /\ Running /\ Borrowable(c) /\ Borrowable(nc)
    /\ Room(1 + 2 * Len(enum_names))
    /\ LET out == EnumerationOutcome(c, nc, enum_names, s)
       IN  Effect("Sort::enumeration", NoWrapper, Len(enum_names),
                  {c, nc} \cup {enum_names[i] : i \in DOMAIN enum_names}, out,
                  IF out.ok THEN EnumerationReturn(c, enum_names, s) ELSE <<>>)
    /\ UNCHANGED <<dtvars, optimizer>>

\* --------------------------------------------------------- DatatypeBuilder
RECURSIVE Concat(_)
Concat(ss) == IF ss = <<>> THEN <<>> ELSE Head(ss) \o Concat(Tail(ss))

DatatypeBuilder_new(c) ==
    /\ Running /\ Borrowable(c)
    /\ builder.state = "none"
    /\ builder' = [state |-> "building", ctx |-> c, variants |-> <<>>]
    /\ Effect("DatatypeBuilder::new", NoWrapper, 0, {c},
              Outcome(TRUE, <<>>, <<>>), <<>>)
    /\ UNCHANGED <<descriptors, staged, optimizer>>

\* The descriptor Z3_mk_constructor returns: a fresh one.
Constructor(d) == <<"constructor", d, 0>>

\* variants.insert(0, ..) in place of the push.
StageVariant_front(variants, num_fields, constructor) ==
    <<<<num_fields, constructor>>>> \o variants

\* self.variants.push((fields.len(), constructor))
StageVariant(variants, num_fields, constructor) ==
    Append(variants, <<num_fields, constructor>>)

\* Context::str_sym hands the name to Symbol::from_string; no handle is
\* counted.
str_sym(c) == Call("Symbol::from_string", c, NULL, {})

\* variant() that also counts a reference on the descriptor.
VariantOutcome_counting(b, fields, constructor) ==
    IF \E i \in DOMAIN fields : fields[i].ctx # b.ctx
    THEN Outcome(FALSE,
                 <<str_sym(b.ctx), str_sym(b.ctx)>>,
                 <<>>)
    ELSE Outcome(TRUE,
                 <<str_sym(b.ctx), str_sym(b.ctx)>>
                 \o [i \in DOMAIN fields |-> str_sym(b.ctx)]
                 \o <<Call("Z3_mk_constructor", b.ctx, constructor,
                           CtxsOf(fields)),
                      Inc("Z3_inc_ref", b.ctx, constructor)>>,
                 <<>>)

\* variant(): the two symbols, the assertion, one symbol per field, the
\* descriptor.
VariantOutcome(b, fields, constructor) ==
    IF \E i \in DOMAIN fields : fields[i].ctx # b.ctx
    THEN Outcome(FALSE,
                 <<str_sym(b.ctx), str_sym(b.ctx)>>,
                 <<>>)
    ELSE Outcome(TRUE,
                 <<str_sym(b.ctx), str_sym(b.ctx)>>
                 \o [i \in DOMAIN fields |-> str_sym(b.ctx)]
                 \o <<Call("Z3_mk_constructor", b.ctx, constructor,
                           CtxsOf(fields))>>,
                 <<>>)

DatatypeBuilder_variant(fields) ==
    /\ Running
    /\ builder.state = "building"
    /\ Len(builder.variants) < MaxVariants
    /\ LET constructor == Constructor(Cardinality(DOMAIN descriptors) + 1)
           out == VariantOutcome(builder, fields, constructor)
       IN  /\ Effect("DatatypeBuilder::variant", NoWrapper, Len(fields),
                     {builder.ctx} \cup CtxsOf(fields), out, <<>>)
           /\ IF out.ok
              THEN /\ builder' =
                        [builder EXCEPT
                            !.variants = StageVariant(@, Len(fields), constructor)]
                   /\ descriptors' =
                        descriptors @@
                        (constructor :>
                            [fields |-> [i \in DOMAIN fields |-> fields[i].h],
                             live |-> TRUE])
                   /\ staged' = Append(staged, [fields |-> fields,
                                                constructor |-> constructor])
              ELSE UNCHANGED dtvars
    /\ UNCHANGED optimizer

\* The builder goes out of scope without finish(): DatatypeBuilder has no
\* Drop impl, so its Vec is freed and no engine call is made.
DatatypeBuilder_drop ==
    /\ Running
    /\ builder.state = "building"
    /\ builder' = [builder EXCEPT !.state = "dropped"]
    /\ Effect("DatatypeBuilder::drop", NoWrapper, 0, {builder.ctx},
              Outcome(TRUE, <<>>, <<>>), <<>>)
    /\ UNCHANGED <<descriptors, staged, optimizer>>

\* Z3_query_constructor: the declarations of a descriptor, the accessors in
\* the order of its fields; entries beyond its fields are left null.
Z3_query_constructor(constructor, num_fields) ==
    [constructor_func |-> <<"decl.constructor", constructor[2], 0>>,
     tester |-> <<"decl.tester", constructor[2], 0>>,
     accessors |->
        [j \in 1..num_fields |->
            IF j <= Len(descriptors[constructor].fields)
            THEN <<"decl.accessor", constructor[2], j>>
            ELSE NULL]]

\* FuncDecl::from_raw wraps a declaration with its own increment.
FuncDecl_from_raw(c, f) ==
    Outcome(TRUE, <<Inc("Z3_inc_ref", c, f)>>, <<W("FuncDecl", c, f)>>)

\* The descriptor deleted before it is queried.
VariantCalls_delete_first(c, constructor) ==
    <<Call("Z3_del_constructor", c, constructor, {c}),
      Call("Z3_query_constructor", c, constructor, {c})>>

\* finish(), per staged variant: query the descriptor, then delete it.
VariantCalls(c, constructor) ==
    <<Call("Z3_query_constructor", c, constructor, {c}),
      Call("Z3_del_constructor", c, constructor, {c})>>

\* The accessors collected last to first.
FinishVariant_accessors_reversed(c, v) ==
    LET q == Z3_query_constructor(v[2], v[1])
        constructor == FuncDecl_from_raw(c, q.constructor_func)
        tester == FuncDecl_from_raw(c, q.tester)
        accessors ==
            [j \in 1..v[1] |-> FuncDecl_from_raw(c, q.accessors[v[1] + 1 - j])]
    IN  [log |-> VariantCalls(c, v[2]) \o constructor.log \o tester.log
                 \o Concat([j \in 1..v[1] |-> accessors[j].log]),
         variant |-> [constructor |-> constructor.res[1],
                      tester |-> tester.res[1],
                      accessors |-> [j \in 1..v[1] |-> accessors[j].res[1]]]]

\* finish(), per staged variant (num_fields, constructor).
FinishVariant(c, v) ==
    LET q == Z3_query_constructor(v[2], v[1])
        constructor == FuncDecl_from_raw(c, q.constructor_func)
        tester == FuncDecl_from_raw(c, q.tester)
        accessors == [j \in 1..v[1] |-> FuncDecl_from_raw(c, q.accessors[j])]
    IN  [log |-> VariantCalls(c, v[2]) \o constructor.log \o tester.log
                 \o Concat([j \in 1..v[1] |-> accessors[j].log]),
         variant |-> [constructor |-> constructor.res[1],
                      tester |-> tester.res[1],
                      accessors |-> [j \in 1..v[1] |-> accessors[j].res[1]]]]

\* finish(): the sort over all staged descriptors, then every variant in
\* staging order.
Finish(b, s) ==
    LET c == b.ctx
        vs == [k \in DOMAIN b.variants |-> FinishVariant(c, b.variants[k])]
    IN  [log |-> <<str_sym(c),
                   Call("Z3_mk_datatype", c, s, {c}),
                   Inc("Z3_inc_ref", c, s)>>
                 \o Concat([k \in DOMAIN vs |-> vs[k].log]),
         datatype |-> [ctx |-> c,
                       sort |-> W("Sort", c, s),
                       variants |-> [k \in DOMAIN vs |-> vs[k].variant]]]

\* The wrappers a Datatype owns.
DatatypeWrappers(dt) ==
    <<dt.sort>>
    \o Concat([k \in DOMAIN dt.variants |->
                  <<dt.variants[k].constructor, dt.variants[k].tester>>
                  \o dt.variants[k].accessors])

Deleted(log) ==
    {log[i].h : i \in {j \in DOMAIN log : log[j].fn = "Z3_del_constructor"}}

DatatypeBuilder_finish(s) ==
    /\ Running
    /\ builder.state = "building"
    /\ LET f == Finish(builder, s)
       IN  /\ Room(Len(DatatypeWrappers(f.datatype)))
           /\ Effect("DatatypeBuilder::finish", NoWrapper, Len(builder.variants),
                     {builder.ctx},
                     Outcome(TRUE, f.log, DatatypeWrappers(f.datatype)),
                     f.datatype)
           /\ descriptors' =
                 [d \in DOMAIN descriptors |->
                     IF d \in Deleted(f.log)
                     THEN [descriptors[d] EXCEPT !.live = FALSE]
                     ELSE descriptors[d]]
    /\ builder' = [builder EXCEPT !.state = "finished"]
    /\ UNCHANGED <<staged, optimizer>>

\* ---------------------------------------------------------------- Optimize
\* The engine's side of an Optimize object, as the comments of optimize.rs
\* give it: hard constraints, objectives, backtracking points that pop
\* restores, and the model of the last check.
Z3_optimize_assert(e, a) ==
    [e EXCEPT !.hard = @ \cup {a}, !.model = FALSE]

Z3_optimize_maximize(e, a) ==
    [e EXCEPT !.objectives = Append(@, <<"maximize", a>>), !.model = FALSE]

Z3_optimize_minimize(e, a) ==
    [e EXCEPT !.objectives = Append(@, <<"minimize", a>>), !.model = FALSE]

Z3_optimize_push(e) ==
    [e EXCEPT !.scopes = Append(@, [hard |-> e.hard,
                                    objectives |-> e.objectives]),
              !.model = FALSE]

\* With a backtracking point: back to it.  Without one the precondition of
\* Z3_optimize_pop is broken; an engine that goes on leaves the constraints
\* as they are.
Z3_optimize_pop(e) ==
    IF e.scopes = <<>>
    THEN [e EXCEPT !.model = FALSE]
    ELSE [e EXCEPT !.hard = e.scopes[Len(e.scopes)].hard,
                   !.objectives = e.scopes[Len(e.scopes)].objectives,
                   !.scopes = SubSeq(@, 1, Len(@) - 1),
                   !.model = FALSE]

\* The terms of this part: A, B that contradicts A, and X to optimise.
TermA == <<"ast", 1, 0>>

TermB == <<"ast", 2, 0>>

TermX == <<"ast", 3, 0>>

Satisfiable(hard) == ~({TermA, TermB} \subseteq hard)

Z3_lbool == {"Z3_L_FALSE", "Z3_L_UNDEF", "Z3_L_TRUE"}

\* What Z3_optimize_check may answer: never the wrong verdict, possibly none.
Z3_optimize_check(e) ==
    IF Satisfiable(e.hard) THEN {"Z3_L_TRUE", "Z3_L_UNDEF"}
    ELSE {"Z3_L_FALSE", "Z3_L_UNDEF"}

\* What was called on the Optimize object that still stands: trail is the
\* calls not undone by a pop, a push among them as a mark.
Mark == <<"push", NULL>>

Marks(trail) == {i \in DOMAIN trail : trail[i] = Mark}

LastMark(trail) == CHOOSE i \in Marks(trail) : \A j \in Marks(trail) : j <= i

Called(e, entry) ==
    [e EXCEPT !.trail = Append(@, entry), !.undone = <<>>, !.stale = TRUE]

\* An operation on Optimize w that returns nothing: its engine call, the
\* engine's new state.
OptimizeCall(op, w, n, cs, fn, e) ==
    /\ Effect(op, w, n, cs,
              Outcome(TRUE, <<Call(fn, w.ctx, w.h, cs)>>, <<>>), <<>>)
    /\ optimizer' = e
    /\ UNCHANGED dtvars

Optimize_assert(w, ast) ==
    /\ Running
    /\ Len(optimizer.trail) < MaxTrail
    /\ OptimizeCall("Optimize::assert", w, 1, {w.ctx, ast.ctx},
                    "Z3_optimize_assert",
                    Called(Z3_optimize_assert(optimizer, ast.h),
                           <<"assert", ast.h>>))

Optimize_maximize(w, ast) ==
    /\ Running
    /\ Len(optimizer.trail) < MaxTrail
    /\ OptimizeCall("Optimize::maximize", w, 1, {w.ctx, ast.ctx},
                    "Z3_optimize_maximize",
                    Called(Z3_optimize_maximize(optimizer, ast.h),
                           <<"maximize", ast.h>>))

Optimize_minimize(w, ast) ==
    /\ Running
    /\ Len(optimizer.trail) < MaxTrail
    /\ OptimizeCall("Optimize::minimize", w, 1, {w.ctx, ast.ctx},
                    "Z3_optimize_minimize",
                    Called(Z3_optimize_minimize(optimizer, ast.h),
                           <<"minimize", ast.h>>))

\* push() forwarded to Z3_optimize_pop.
Optimize_push_pops(w) ==
    /\ Running
    /\ Len(optimizer.trail) < MaxTrail
    /\ OptimizeCall("Optimize::push", w, 0, {w.ctx}, "Z3_optimize_pop",
                    Called(Z3_optimize_pop(optimizer), Mark))

Optimize_push(w) ==
    /\ Running
    /\ Len(optimizer.trail) < MaxTrail
    /\ OptimizeCall("Optimize::push", w, 0, {w.ctx}, "Z3_optimize_push",
                    Called(Z3_optimize_push(optimizer), Mark))

\* What a pop leaves standing: the calls before the last push; `undone` is
\* what it took back.  Without a push standing the precondition of pop is
\* broken.
Popped(e) ==
    IF Marks(e.trail) = {}
    THEN [e EXCEPT !.undone = <<>>, !.stale = TRUE, !.violated = TRUE]
    ELSE [e EXCEPT !.trail = SubSeq(@, 1, LastMark(@) - 1),
                   !.undone = SubSeq(e.trail, LastMark(e.trail) + 1,
                                     Len(e.trail)),
                   !.stale = TRUE]

\* pop() has no check of its own.  Z3_optimize_pop without a backtracking
\* point is undefined in the engine: it may end the process, or go on.
Optimize_pop(w, aborts) ==
    /\ Running
    /\ aborts => optimizer.scopes = <<>>
    /\ IF aborts
       THEN /\ Effect("Optimize::pop", w, 0, {w.ctx},
                      Outcome(FALSE,
                              <<Call("Z3_optimize_pop", w.ctx, w.h, {w.ctx})>>,
                              <<>>),
                      <<>>)
            /\ UNCHANGED <<dtvars, optimizer>>
       ELSE OptimizeCall("Optimize::pop", w, 0, {w.ctx}, "Z3_optimize_pop",
                         Popped(Z3_optimize_pop(optimizer)))

\* Z3_optimize_check(..) == Z3_L_TRUE
CheckReturn(r) == r = "Z3_L_TRUE"

Optimize_check(w, r) ==
    /\ Running
    /\ r \in Z3_optimize_check(optimizer)
    /\ Effect("Optimize::check", w, 0, {w.ctx},
              Outcome(TRUE,
                      <<Call("Z3_optimize_check", w.ctx, w.h, {w.ctx})>>,
                      <<>>),
              CheckReturn(r))
    /\ optimizer' = [optimizer EXCEPT !.model = (r = "Z3_L_TRUE"),
                                      !.last = r, !.stale = FALSE]
    /\ UNCHANGED dtvars

\* Model::of_optimize: the model of the last check wrapped with its own
\* increment; without one the engine's error is fatal here.
Model_of_optimize(e, w, m) ==
    IF e.model
    THEN Outcome(TRUE,
                 <<Call("Z3_optimize_get_model", w.ctx, m, {w.ctx}),
                   Call("Z3_model_inc_ref", w.ctx, m, {w.ctx})>>,
                 <<W("Model", w.ctx, m)>>)
    ELSE Outcome(FALSE,
                 <<Call("Z3_optimize_get_model", w.ctx, NULL, {w.ctx})>>,
                 <<>>)

\* get_model() answering from a model kept from an earlier check.
GetModel_cached(e, w, m) ==
    Model_of_optimize([e EXCEPT !.model = (e.last # "none")], w, m)

\* get_model() is Model::of_optimize(self).
GetModel(e, w, m) == Model_of_optimize(e, w, m)

Optimize_get_model(w, m) ==
    /\ Running
    /\ Room(1)
    /\ Effect("Optimize::get_model", w, 0, {w.ctx},
              GetModel(optimizer, w, m), <<>>)
    /\ UNCHANGED <<dtvars, optimizer>>

\* ---------------------------------------------------------------- numerals
\* Fixed-width integers are their bits, in 16-bit limbs, lowest first: four
\* limbs for i64 and u64, two for i32 and u32.  The engine's integers are
\* unbounded: a sign and a magnitude (here below 2^64, in four limbs).
RECURSIVE AddOne(_)
AddOne(bits) ==
    IF bits = <<>> THEN <<>>
    ELSE IF Head(bits) = 65535 THEN <<0>> \o AddOne(Tail(bits))
    ELSE <<Head(bits) + 1>> \o Tail(bits)

\* Two's complement negation at the width of `bits`.
Negate(bits) == AddOne([j \in DOMAIN bits |-> 65535 - bits[j]])

Widen(bits, k) == [j \in 1..k |-> IF j <= Len(bits) THEN bits[j] ELSE 0]

\* The integer that a signed or unsigned value of any width stands for.
ToInt(bits, signed) ==
    LET neg == signed /\ bits[Len(bits)] >= 32768
    IN  [kind |-> "int", neg |-> neg,
         mag |-> Widen(IF neg THEN Negate(bits) ELSE bits, 4)]

\* Whether integer n is a signed (unsigned) value of k limbs, and its bits.
Fits(n, k, signed) ==
    /\ \A j \in (k + 1)..4 : n.mag[j] = 0
    /\ IF signed
       THEN \/ n.mag[k] < 32768
            \/ n.neg /\ n.mag[k] = 32768 /\ \A j \in 1..(k - 1) : n.mag[j] = 0
       ELSE ~n.neg

Bits(n, k) ==
    IF n.neg THEN Negate(SubSeq(n.mag, 1, k)) ELSE SubSeq(n.mag, 1, k)

\* Terms are hash-consed by the engine: one handle per term.
Intern(term) == <<"ast", term, 0>>

TermOf(h) == h[2]

Z3_mk_int64(i) == Intern(ToInt(i, TRUE))

Z3_mk_unsigned_int64(u) == Intern(ToInt(u, FALSE))

Z3_mk_real(num, den) ==
    Intern([kind |-> "real", num |-> ToInt(num, TRUE), den |-> ToInt(den, TRUE)])

Z3_mk_bool(b) == Intern([kind |-> "bool", value |-> b])

Some(v) == <<"Some", v>>

None == <<"None">>

\* Z3_get_numeral_int, _int64 (k limbs, signed); _uint, _uint64 (unsigned):
\* true and the value for an integer numeral that fits, false otherwise.
Z3_get_numeral(t, k, signed) ==
    IF t.kind = "int" /\ Fits(t, k, signed)
    THEN [ok |-> TRUE, v |-> Bits(t, k)]
    ELSE [ok |-> FALSE, v |-> Widen(<<>>, k)]

\* Z3_get_numeral_small: numerator and denominator of a numeral, as i64.
Z3_get_numeral_small(t) ==
    IF t.kind = "int" /\ Fits(t, 4, TRUE)
    THEN [ok |-> TRUE, v |-> <<Bits(t, 4), <<1, 0, 0, 0>>>>]
    ELSE IF t.kind = "real" /\ Fits(t.num, 4, TRUE) /\ Fits(t.den, 4, TRUE)
    THEN [ok |-> TRUE, v |-> <<Bits(t.num, 4), Bits(t.den, 4)>>]
    ELSE [ok |-> FALSE, v |-> <<>>]

Z3_get_bool_value(t) ==
    IF t.kind = "bool"
    THEN (IF t.value THEN "Z3_L_TRUE" ELSE "Z3_L_FALSE")
    ELSE "Z3_L_UNDEF"

\* if Z3_get_numeral_..(.., &mut tmp) { Some(tmp) } else { None }
SomeIf(r) == IF r.ok THEN Some(r.v) ELSE None

\* i.try_into(): the value at another width, or an error.
TryInto(bits, k, signed) ==
    IF Fits(ToInt(bits, signed), k, signed)
    THEN [ok |-> TRUE, v |-> Bits(ToInt(bits, signed), k)]
    ELSE [ok |-> FALSE, v |-> <<>>]

\* The limbs of isize and usize.
PointerLimbs == target_pointer_width \div 16

\* An as_* call on w: one engine query `fn`; `ok` is whether it returned,
\* `ret` what.
Queried(op, w, fn, ok, ret) ==
    /\ Running
    /\ Effect(op, w, 0, {w.ctx},
              Outcome(ok, <<Call(fn, w.ctx, w.h, {w.ctx})>>, <<>>), ret)
    /\ UNCHANGED <<dtvars, optimizer>>

Ast_as_bool(w) ==
    LET b == Z3_get_bool_value(TermOf(w.h))
    IN  Queried("Ast::as_bool", w, "Z3_get_bool_value", TRUE,
                IF b = "Z3_L_TRUE" THEN Some(TRUE)
                ELSE IF b = "Z3_L_FALSE" THEN Some(FALSE) ELSE None)

Ast_as_i32(w) ==
    Queried("Ast::as_i32", w, "Z3_get_numeral_int", TRUE,
            SomeIf(Z3_get_numeral(TermOf(w.h), 2, TRUE)))

Ast_as_u32(w) ==
    Queried("Ast::as_u32", w, "Z3_get_numeral_uint", TRUE,
            SomeIf(Z3_get_numeral(TermOf(w.h), 2, FALSE)))

Ast_as_i64(w) ==
    Queried("Ast::as_i64", w, "Z3_get_numeral_int64", TRUE,
            SomeIf(Z3_get_numeral(TermOf(w.h), 4, TRUE)))

Ast_as_u64(w) ==
    Queried("Ast::as_u64", w, "Z3_get_numeral_uint64", TRUE,
            SomeIf(Z3_get_numeral(TermOf(w.h), 4, FALSE)))

\* self.as_i64().map(|i| i.try_into().unwrap())
Ast_as_isize(w) ==
    LET r == Z3_get_numeral(TermOf(w.h), 4, TRUE)
        i == TryInto(r.v, PointerLimbs, TRUE)
    IN  Queried("Ast::as_isize", w, "Z3_get_numeral_int64", r.ok => i.ok,
                IF ~r.ok THEN None ELSE IF i.ok THEN Some(i.v) ELSE <<>>)

\* self.as_u64().map(|i| i.try_into().unwrap())
Ast_as_usize(w) ==
    LET r == Z3_get_numeral(TermOf(w.h), 4, FALSE)
        i == TryInto(r.v, PointerLimbs, FALSE)
    IN  Queried("Ast::as_usize", w, "Z3_get_numeral_uint64", r.ok => i.ok,
                IF ~r.ok THEN None ELSE IF i.ok THEN Some(i.v) ELSE <<>>)

Ast_as_real(w) ==
    Queried("Ast::as_real", w, "Z3_get_numeral_small", TRUE,
            SomeIf(Z3_get_numeral_small(TermOf(w.h))))

\* from_u64, like from_i64, under a temporary Sort::int.
Ast_from_u64(c, s, h) ==
    /\ Running /\ Borrowable(c) /\ Room(1)
    /\ Done("Ast::from_u64", NoWrapper, 0, {c},
            AstNew(c, h, <<Call("Z3_mk_int_sort", c, s, {}),
                           Inc("Z3_inc_ref", c, s),
                           Call("Z3_mk_unsigned_int64", c, h, {c}),
                           Dec("Z3_dec_ref", c, s)>>))

Ast_from_real(c, h) ==
    /\ Running /\ Borrowable(c) /\ Room(1)
    /\ Done("Ast::from_real", NoWrapper, 0, {c},
            AstNew(c, h, <<Call("Z3_mk_real", c, h, {c})>>))

\* -------------------------------------------------------- variadic operations
\* A slice of terms whose length is a usize (four limbs): `head` are its
\* first elements, all of them unless the slice is too long to write out.
Slice(head, len) == [head |-> head, len |-> len]

\* tmp = vec![self.z3_ast]; for a in other { tmp.push(a.z3_ast) }
Tmp(w, other) ==
    Slice([j \in 1..(Len(other.head) + 1) |->
              IF j = 1 THEN w.h ELSE other.head[j - 1].h],
          AddOne(other.len))

\* $z3fn(ctx, tmp.len() as u32, tmp.as_ptr(), ..): `as` keeps the low 32 bits.
VariadicCall(fn, w, other, h, rest) ==
    [fn |-> fn, ctx |-> w.ctx, h |-> h,
     owners |-> {w.ctx} \cup CtxsOf(other.head),
     num_args |-> SubSeq(Tmp(w, other).len, 1, 2), args |-> Tmp(w, other),
     rest |-> rest]

VarOutcome_unchecked(fn, w, other, h, rest) ==
    AstNew(w.ctx, h, <<VariadicCall(fn, w, other, h, rest)>>)

\* assert!(tmp.len() <= 0xffff_ffff) before the engine call.
VarOutcome(fn, w, other, h, rest) ==
    IF ~Fits(ToInt(Tmp(w, other).len, FALSE), 2, FALSE)
    THEN Outcome(FALSE, <<>>, <<>>)
    ELSE AstNew(w.ctx, h, <<VariadicCall(fn, w, other, h, rest)>>)

\* The operations of varop! and the engine function of each.
VarOps ==
    [distinct |-> "Z3_mk_distinct", and |-> "Z3_mk_and", or |-> "Z3_mk_or",
     add |-> "Z3_mk_add", sub |-> "Z3_mk_sub", mul |-> "Z3_mk_mul",
     set_union |-> "Z3_mk_set_union", set_intersect |-> "Z3_mk_set_intersect"]

PbOps == [pb_le |-> "Z3_mk_pble", pb_ge |-> "Z3_mk_pbge", pb_eq |-> "Z3_mk_pbeq"]

\* varop!(f, ..) on a slice of any length; lastOp.n is the slice.
Ast_variadic(f, w, other, h) ==
    /\ Running /\ Room(1)
    /\ Done(f, w, other, {w.ctx} \cup CtxsOf(other.head),
            VarOutcome(VarOps[f], w, other, h, <<>>))

\* pb_le, pb_ge, pb_eq: the same list and count, then coefficients and k.
Ast_pb(f, w, other, coeffs, k, h) ==
    /\ Running /\ Room(1)
    /\ Done(f, w, other, {w.ctx} \cup CtxsOf(other.head),
            VarOutcome(PbOps[f], w, other, h, <<coeffs, k>>))

\* ------------------------------------------------------ text and hash
Z3_mk_const(name, sort) ==
    Intern([kind |-> "const", name |-> name, sort |-> sort])

\* Z3_ast_to_string: a constant prints as its name, a numeral as its sign
\* and digits, a Boolean literal as true or false.
RECURSIVE Z3_ast_to_string(_)
Z3_ast_to_string(t) ==
    IF t.kind = "const" THEN <<t.name>>
    ELSE IF t.kind = "int" THEN <<IF t.neg THEN "-" ELSE "", t.mag>>
    ELSE IF t.kind = "bool" THEN <<IF t.value THEN "true" ELSE "false">>
    ELSE <<"/", Z3_ast_to_string(t.num), Z3_ast_to_string(t.den)>>

\* Z3_get_ast_hash: a number computed from the term, not injective.
Z3_get_ast_hash(t) ==
    IF t.kind = "const" THEN Len(t.name) + t.sort[2]
    ELSE IF t.kind = "int" THEN (t.mag[1] + t.mag[2]) % 4
    ELSE IF t.kind = "bool" THEN 1
    ELSE 0

\* Display for Ast.
Ast_fmt(w) ==
    Queried("Ast::fmt", w, "Z3_ast_to_string", TRUE,
            Z3_ast_to_string(TermOf(w.h)))

\* Hash for Ast: u.hash(state) feeds the engine's u32 to the hasher.
Ast_hash(w) ==
    Queried("Ast::hash", w, "Z3_get_ast_hash", TRUE,
            <<"u32", Z3_get_ast_hash(TermOf(w.h))>>)

\* ------------------------------------------------------------ bit vectors
\* Z3_mk_int2bv(c, n, t) on an integer term, Z3_mk_bv2int(c, t, signed) on a
\* bit-vector term; on a term of another sort the engine returns null.
Z3_mk_int2bv(n, t) ==
    IF t.kind \in {"int", "bv2int"}
    THEN Intern([kind |-> "int2bv", n |-> n, arg |-> t])
    ELSE NULL

Z3_mk_bv2int(t, signed) ==
    IF t.kind = "int2bv"
    THEN Intern([kind |-> "bv2int", signed |-> signed, arg |-> t])
    ELSE NULL

\* int2bv: n.try_into().unwrap() narrows the width from u64 to u32;
\* lastOp.n is the width asked for.
Ast_int2bv(w, n) ==
    /\ Running /\ Room(1)
    /\ Done("Ast::int2bv", w, n, {w.ctx},
            LET width == TryInto(n, 2, FALSE)
            IN  IF ~width.ok
                THEN Outcome(FALSE, <<>>, <<>>)
                ELSE LET h == Z3_mk_int2bv(width.v, TermOf(w.h))
                     IN  AstNew(w.ctx, h,
                                <<Call("Z3_mk_int2bv", w.ctx, h, {w.ctx})>>))

\* bv2int that asks for the unsigned reading whatever `signed` is.
Ast_bv2int_unsigned(w, signed) ==
    /\ Running /\ Room(1)
    /\ Done("Ast::bv2int", w, signed, {w.ctx},
            LET h == Z3_mk_bv2int(TermOf(w.h), FALSE)
            IN  AstNew(w.ctx, h, <<Call("Z3_mk_bv2int", w.ctx, h, {w.ctx})>>))

\* bv2int; lastOp.n is `signed`.
Ast_bv2int(w, signed) ==
    /\ Running /\ Room(1)
    /\ Done("Ast::bv2int", w, signed, {w.ctx},
            LET h == Z3_mk_bv2int(TermOf(w.h), signed)
            IN  AstNew(w.ctx, h, <<Call("Z3_mk_bv2int", w.ctx, h, {w.ctx})>>))

\* Bit k (from 1, lowest first) of a value in limbs.
BitOf(limbs, k) == (limbs[(k - 1) \div 16 + 1] \div 2 ^ ((k - 1) % 16)) % 2

RECURSIVE LimbOf(_, _, _)
\* Limb j of the value of a bit sequence, from bit position k of the limb on.
LimbOf(bits, j, k) ==
    IF k > 16 \/ 16 * (j - 1) + k > Len(bits) THEN 0
    ELSE bits[16 * (j - 1) + k] * 2 ^ (k - 1) + LimbOf(bits, j, k + 1)

\* The engine's int2bv: the low n bits of the two's complement of integer i.
Int2Bv(i, n) ==
    [k \in 1..n |-> BitOf(IF i.neg THEN Negate(i.mag) ELSE i.mag, k)]

\* The engine's bv2int: the unsigned value of the bits, or the signed one.
Bv2Int(bits, signed) ==
    LET neg == signed /\ bits[Len(bits)] = 1
        of == IF neg THEN [k \in DOMAIN bits |-> 1 - bits[k]] ELSE bits
        mag == [j \in 1..4 |-> LimbOf(of, j, 1)]
    IN  [kind |-> "int", neg |-> neg, mag |-> IF neg THEN AddOne(mag) ELSE mag]

RECURSIVE Eval(_)
\* Model::eval of a ground term: numerals are values, int2bv and bv2int are
\* computed on the value of their argument.
Eval(t) ==
    IF t.kind = "int2bv" THEN Int2Bv(Eval(t.arg), t.n[1] + 65536 * t.n[2])
    ELSE IF t.kind = "bv2int" THEN Bv2Int(Eval(t.arg), t.signed)
    ELSE t

\* ----------------------------------------------------------- specification
NoOp == [op |-> "none", w |-> NoWrapper, n |-> 0, cs |-> {}, ok |-> TRUE,
         log |-> <<>>, res |-> <<>>, ret |-> <<>>]

Init ==
    /\ ctxs = [c \in Ctx |-> [state |-> "unborn", dels |-> 0]]
    /\ wrappers = EmptyBag
    /\ rc = <<>>
    /\ lastOp = NoOp
    /\ panicked = FALSE
    /\ limit = MaxLive
    /\ builder = NoBuilder
    /\ descriptors = <<>>
    /\ staged = <<>>
    /\ optimizer = NoOptimizer
    /\ target_pointer_width = 64

Construct ==
    \/ \E c \in Ctx, h \in EngineResult("ast") : Ast_from_bool(c, h)
    \/ \E c \in Ctx, s \in EngineResult("sort"), h \in EngineResult("ast") :
          Ast_from_i64(c, s, h)
    \/ \E c \in Ctx, s \in EngineResult("sort") : Sort_bool(c, s)
    \/ \E c \in Ctx, p \in EngineResult("params") : Params_new(c, p)
    \/ \E c \in Ctx, p \in EngineResult("param_descrs") : ParamDescrs_new(c, p)
    \/ \E c \in Ctx, st \in EngineResult("stats") : Stats_with_solver(c, st)
    \/ \E c \in Ctx, opt \in EngineResult("optimize") : Optimize_new(c, opt)
    \/ \E c \in Ctx, a \in EngineResult("pattern"),
          terms \in Seqs(LiveOf("Ast"), 0, MaxOther) : Pattern_new(c, terms, a)

Derive ==
    \/ \E w \in LiveOf("Ast") : Ast_clone(w)
    \/ \E w \in LiveOf("Ast"), d \in Ctx, h \in EngineResult("ast") :
          Ast_translate(w, d, h)
    \/ \E w \in LiveOf("Ast"), h \in EngineResult("ast") : Ast_unop(w, h)

Drop ==
    \/ \E w \in LiveOf("Ast") : Ast_drop(w)
    \/ \E w \in LiveOf("Sort") : Sort_drop(w)
    \/ \E w \in LiveOf("Pattern") : Pattern_drop(w)
    \/ \E w \in LiveOf("Params") : Params_drop(w)
    \/ \E w \in LiveOf("ParamDescrs") : ParamDescrs_drop(w)
    \/ \E w \in LiveOf("Stats") : Stats_drop(w)
    \/ \E w \in LiveOf("Optimize") : Optimize_drop(w)

Next ==
    \/ \E c \in Ctx : Context_new(c)
    \/ \E c \in Ctx : Context_drop(c)
    \/ Construct
    \/ Derive
    \/ Drop

Spec == Init /\ [][Next]_vars

\* The operations on two or more handles, from a state in which both
\* Contexts hold one wrapper of each operand type.
Pool ==
    {W("Ast", c, H("ast", 1)) : c \in Ctx}
    \cup {W("Sort", c, H("sort", 1)) : c \in Ctx}
    \cup {W("Pattern", c, H("pattern", 1)) : c \in Ctx}
    \cup {W("Params", c, H("params", 1)) : c \in Ctx}
    \cup {W("ParamDescrs", c, H("param_descrs", 1)) : c \in Ctx}

InitOps ==
    /\ ctxs = [c \in Ctx |-> [state |-> "live", dels |-> 0]]
    /\ wrappers = SetToBag(Pool)
    /\ rc = [k \in {<<w.ctx, w.h>> : w \in Pool} |-> 1]
    /\ lastOp = NoOp
    /\ panicked = FALSE
    /\ limit = Cardinality(Pool) + 1
    /\ builder = NoBuilder
    /\ descriptors = <<>>
    /\ staged = <<>>
    /\ optimizer = NoOptimizer
    /\ target_pointer_width = 64

Weights == {USize(0, 0), USize(0, 1), USize(1, 0)}

TermOps ==
    \/ \E w, o \in LiveOf("Ast"), h \in EngineResult("ast") : Ast_binop(w, o, h)
    \/ \E w, o \in LiveOf("Ast"), b \in BOOLEAN, h \in EngineResult("ast") :
          Ast_binop_bool(w, o, b, h)
    \/ \E w, a, b \in LiveOf("Ast"), h \in EngineResult("ast") :
          Ast_trinop(w, a, b, h)
    \/ \E w \in LiveOf("Ast"), o \in Seqs(LiveOf("Ast"), 0, MaxOther),
          h \in EngineResult("ast") : Ast_varop(w, o, h)
    \/ \E w, o \in LiveOf("Ast") : Ast_eq(w, o)
    \/ \E sc \in Ctx, s \in LiveOf("Sort"), h \in EngineResult("ast") :
          Ast_new_const(sc, s, h)
    \/ \E c \in Ctx, s \in LiveOf("Sort"), h \in EngineResult("ast") :
          Ast_fresh_const(c, s, h)

QuantifierOps ==
    \/ \E c \in Ctx, wt \in Weights, bs \in Seqs(LiveOf("Ast"), 0, MaxOther),
          ps \in Seqs(LiveOf("Pattern"), 0, MaxPatterns),
          body \in LiveOf("Ast"), h \in EngineResult("ast") :
          Ast_forall_const_weight_patterns(c, wt, bs, ps, body, h)
    \/ \E c \in Ctx, bs \in Seqs(LiveOf("Ast"), 0, MaxOther),
          body \in LiveOf("Ast"), h \in EngineResult("ast") :
          Ast_forall_const(c, bs, body, h)
    \/ \E c \in Ctx, bs \in Seqs(LiveOf("Ast"), 0, MaxOther),
          body \in LiveOf("Ast"), h \in EngineResult("ast") :
          Ast_exists_const(c, bs, body, h)

OtherOps ==
    \/ \E w, o \in LiveOf("Sort") : Sort_eq(w, o)
    \/ \E c \in Ctx, d, r \in LiveOf("Sort"), s \in EngineResult("sort") :
          Sort_array(c, d, r, s)
    \/ \E c \in Ctx, e \in LiveOf("Sort"), s \in EngineResult("sort") :
          Sort_set(c, e, s)
    \/ \E c, sc \in Ctx, s \in EngineResult("sort") :
          Sort_uninterpreted(c, sc, s)
    \/ \E c \in Ctx, a \in EngineResult("pattern"),
          terms \in Seqs(LiveOf("Ast"), 0, MaxOther) : Pattern_new(c, terms, a)
    \/ \E w \in LiveOf("Params"), kc \in Ctx : Params_set(w, kc)
    \/ \E w \in LiveOf("Params"), kc, vc \in Ctx : Params_set_symbol(w, kc, vc)
    \/ \E w \in LiveOf("Params"), d \in LiveOf("ParamDescrs") :
          Params_validate(w, d)

NextOps == TermOps \/ QuantifierOps \/ OtherOps

SpecOps == InitOps /\ [][NextOps]_vars


\* Enumerations, from a state with both Contexts live and room for one
\* enumeration of the most names.
InitEnum ==
    /\ ctxs = [c \in Ctx |-> [state |-> "live", dels |-> 0]]
    /\ wrappers = EmptyBag
    /\ rc = <<>>
    /\ lastOp = NoOp
    /\ panicked = FALSE
    /\ limit = 1 + 2 * MaxNames
    /\ builder = NoBuilder
    /\ descriptors = <<>>
    /\ staged = <<>>
    /\ optimizer = NoOptimizer
    /\ target_pointer_width = 64

NextEnum ==
    \/ \E c, nc \in Ctx, names \in Seqs(Ctx, 0, MaxNames),
          s \in EngineResult("sort") : Sort_enumeration(c, nc, names, s)
    \/ \E w \in LiveOf("Sort") : Sort_drop(w)

SpecEnum == InitEnum /\ [][NextEnum]_vars

\* Datatypes, from a state with two sorts in one Context and one in the
\* other to draw field sorts from.
BuildPool ==
    {W("Sort", 1, H("sort", 1)), W("Sort", 1, H("sort", 2)),
     W("Sort", 2, H("sort", 1))}

InitBuild ==
    /\ ctxs = [c \in Ctx |-> [state |-> "live", dels |-> 0]]
    /\ wrappers = SetToBag(BuildPool)
    /\ rc = [k \in {<<w.ctx, w.h>> : w \in BuildPool} |-> 1]
    /\ lastOp = NoOp
    /\ panicked = FALSE
    /\ limit = Cardinality(BuildPool) + (1 + MaxVariants * (2 + MaxFields))
    /\ builder = NoBuilder
    /\ descriptors = <<>>
    /\ staged = <<>>
    /\ optimizer = NoOptimizer
    /\ target_pointer_width = 64

NextBuild ==
    \/ \E c \in Ctx : DatatypeBuilder_new(c)
    \/ \E fields \in Seqs(BuildPool, 0, MaxFields) :
          DatatypeBuilder_variant(fields)
    \/ \E s \in EngineResult("sort") : DatatypeBuilder_finish(s)
    \/ DatatypeBuilder_drop

SpecBuild == InitBuild /\ [][NextBuild]_vars

\* One Optimize object of Context 1 and the terms to assert on it.
OptimizePool ==
    {W("Optimize", 1, H("optimize", 1)),
     W("Ast", 1, TermA), W("Ast", 1, TermB), W("Ast", 1, TermX)}

InitOptimize ==
    /\ ctxs = [c \in Ctx |-> [state |-> "live", dels |-> 0]]
    /\ wrappers = SetToBag(OptimizePool)
    /\ rc = [k \in {<<w.ctx, w.h>> : w \in OptimizePool} |-> 1]
    /\ lastOp = NoOp
    /\ panicked = FALSE
    /\ limit = Cardinality(OptimizePool) + 1
    /\ builder = NoBuilder
    /\ descriptors = <<>>
    /\ staged = <<>>
    /\ optimizer = NoOptimizer
    /\ target_pointer_width = 64

NextOptimize ==
    \/ \E w \in LiveOf("Optimize"),
          a \in {W("Ast", 1, TermA), W("Ast", 1, TermB)} :
          Optimize_assert(w, a)
    \/ \E w \in LiveOf("Optimize") : Optimize_maximize(w, W("Ast", 1, TermX))
    \/ \E w \in LiveOf("Optimize") : Optimize_minimize(w, W("Ast", 1, TermX))
    \/ \E w \in LiveOf("Optimize") : Optimize_push(w)
    \/ \E w \in LiveOf("Optimize"), aborts \in BOOLEAN :
          Optimize_pop(w, aborts)
    \/ \E w \in LiveOf("Optimize"), r \in Z3_lbool : Optimize_check(w, r)
    \/ \E w \in LiveOf("Optimize") : Optimize_get_model(w, H("model", 1))

SpecOptimize == InitOptimize /\ [][NextOptimize]_vars

\* Numerals and the as_* conversions, on either width of isize and usize.
I64Inputs ==
    {<<0, 0, 0, 0>>, <<1, 0, 0, 0>>,
     <<65535, 65535, 65535, 65535>>, <<65533, 65535, 65535, 65535>>,
     <<65535, 32767, 0, 0>>, <<0, 32768, 0, 0>>,
     <<0, 32768, 65535, 65535>>, <<65535, 32767, 65535, 65535>>,
     <<65535, 65535, 0, 0>>, <<0, 0, 256, 0>>,
     <<65535, 65535, 65535, 32767>>, <<0, 0, 0, 32768>>}

U64Inputs == {<<3, 0, 0, 0>>, <<0, 0, 0, 32768>>, <<65535, 65535, 65535, 65535>>}

InitNumeral ==
    /\ ctxs = [c \in Ctx |-> [state |-> "live", dels |-> 0]]
    /\ wrappers = EmptyBag
    /\ rc = <<>>
    /\ lastOp = NoOp
    /\ panicked = FALSE
    /\ limit = 1
    /\ builder = NoBuilder
    /\ descriptors = <<>>
    /\ staged = <<>>
    /\ optimizer = NoOptimizer
    /\ target_pointer_width \in {32, 64}

NextNumeral ==
    \/ \E i \in I64Inputs : Ast_from_i64(1, H("sort", 1), Z3_mk_int64(i))
    \/ \E u \in U64Inputs :
          Ast_from_u64(1, H("sort", 1), Z3_mk_unsigned_int64(u))
    \/ Ast_from_real(1, Z3_mk_real(<<1, 0>>, <<2, 0>>))
    \/ \E b \in BOOLEAN : Ast_from_bool(1, Z3_mk_bool(b))
    \/ \E w \in LiveOf("Ast") : Ast_as_bool(w)
    \/ \E w \in LiveOf("Ast") : Ast_as_i32(w)
    \/ \E w \in LiveOf("Ast") : Ast_as_u32(w)
    \/ \E w \in LiveOf("Ast") : Ast_as_i64(w)
    \/ \E w \in LiveOf("Ast") : Ast_as_u64(w)
    \/ \E w \in LiveOf("Ast") : Ast_as_isize(w)
    \/ \E w \in LiveOf("Ast") : Ast_as_usize(w)
    \/ \E w \in LiveOf("Ast") : Ast_as_real(w)
    \/ \E w \in LiveOf("Ast") : Ast_drop(w)

SpecNumeral == InitNumeral /\ [][NextNumeral]_vars

\* Variadic operations on slices up to and beyond 2^32 - 1 elements.
VariadicPool == {W("Ast", 1, TermA), W("Ast", 1, TermB)}

\* Slices written out in full, and long ones of 2^32 - 2, 2^32 - 1 and 2^32
\* elements (with the receiver: 2^32 - 1, 2^32 and 2^32 + 1).
Slices ==
    {Slice(ws, <<Len(ws), 0, 0, 0>>) : ws \in Seqs(VariadicPool, 0, MaxOther)}
    \cup {Slice(ws, n) : ws \in Seqs(VariadicPool, MaxOther, MaxOther),
                         n \in {<<65534, 65535, 0, 0>>, <<65535, 65535, 0, 0>>,
                                <<0, 0, 1, 0>>}}

InitVariadic ==
    /\ ctxs = [c \in Ctx |-> [state |-> "live", dels |-> 0]]
    /\ wrappers = SetToBag(VariadicPool)
    /\ rc = [k \in {<<w.ctx, w.h>> : w \in VariadicPool} |-> 1]
    /\ lastOp = NoOp
    /\ panicked = FALSE
    /\ limit = Cardinality(VariadicPool) + 1
    /\ builder = NoBuilder
    /\ descriptors = <<>>
    /\ staged = <<>>
    /\ optimizer = NoOptimizer
    /\ target_pointer_width = 64

NextVariadic ==
    \/ \E f \in DOMAIN VarOps, w \in VariadicPool, other \in Slices,
          h \in {TermX, NULL} : Ast_variadic(f, w, other, h)
    \/ \E f \in DOMAIN PbOps, w \in VariadicPool, other \in Slices,
          coeffs \in Seqs({1}, 0, MaxOther + 1), h \in {TermX, NULL} :
          Ast_pb(f, w, other, coeffs, 2, h)
    \/ \E w \in LiveOf("Ast") \ VariadicPool : Ast_drop(w)

SpecVariadic == InitVariadic /\ [][NextVariadic]_vars

\* Equality, text and hash of terms of one Context: constants of two names
\* and two sorts, numerals, and clones of them.
EqPool == {W("Sort", 1, H("sort", 1)), W("Sort", 1, H("sort", 2))}

InitEq ==
    /\ ctxs = [c \in Ctx |-> [state |-> "live", dels |-> 0]]
    /\ wrappers = SetToBag(EqPool)
    /\ rc = [k \in {<<w.ctx, w.h>> : w \in EqPool} |-> 1]
    /\ lastOp = NoOp
    /\ panicked = FALSE
    /\ limit = Cardinality(EqPool) + 2
    /\ builder = NoBuilder
    /\ descriptors = <<>>
    /\ staged = <<>>
    /\ optimizer = NoOptimizer
    /\ target_pointer_width = 64

NextEq ==
    \/ \E name \in {"x", "y"}, sort \in EqPool :
          Ast_new_const(1, sort, Z3_mk_const(name, sort.h))
    \/ \E i \in {<<0, 0, 0, 0>>, <<4, 0, 0, 0>>} :
          Ast_from_i64(1, H("sort", 1), Z3_mk_int64(i))
    \/ \E w \in LiveOf("Ast") : Ast_clone(w)
    \/ \E w \in LiveOf("Ast") : Ast_drop(w)
    \/ \E w, o \in LiveOf("Ast") : Ast_eq(w, o)
    \/ \E w \in LiveOf("Ast") : Ast_fmt(w)
    \/ \E w \in LiveOf("Ast") : Ast_hash(w)

SpecEq == InitEq /\ [][NextEq]_vars

\* Integers through int2bv and bv2int: numerals, widths within u32 and one
\* beyond it.
BvInputs ==
    {<<0, 0, 0, 0>>, <<5, 0, 0, 0>>, <<300, 0, 0, 0>>,
     <<65533, 65535, 65535, 65535>>, <<65236, 65535, 65535, 65535>>}

Widths ==
    {<<1, 0, 0, 0>>, <<8, 0, 0, 0>>, <<16, 0, 0, 0>>, <<32, 0, 0, 0>>,
     <<0, 0, 1, 0>>}

InitBv ==
    /\ ctxs = [c \in Ctx |-> [state |-> "live", dels |-> 0]]
    /\ wrappers = EmptyBag
    /\ rc = <<>>
    /\ lastOp = NoOp
    /\ panicked = FALSE
    /\ limit = 3
    /\ builder = NoBuilder
    /\ descriptors = <<>>
    /\ staged = <<>>
    /\ optimizer = NoOptimizer
    /\ target_pointer_width = 64

NextBv ==
    \/ \E i \in BvInputs : Ast_from_i64(1, H("sort", 1), Z3_mk_int64(i))
    \/ \E w \in LiveOf("Ast"), n \in Widths : Ast_int2bv(w, n)
    \/ \E w \in LiveOf("Ast"), signed \in BOOLEAN : Ast_bv2int(w, signed)

SpecBv == InitBv /\ [][NextBv]_vars

\* The Sort constructors and Drop for Sort.  Sort::uninterpreted is taken
\* while fewer than MaxDrift wrappers of the handle are unaccounted for.
Drift(c, s) == Owners(c, s) - RcGet(rc, <<c, s>>)

NextSort ==
    \/ \E c \in Ctx : Context_new(c)
    \/ \E c \in Ctx : Context_drop(c)
    \/ \E c \in Ctx, s \in EngineResult("sort") : Sort_bool(c, s)
    \/ \E c \in Ctx, s \in EngineResult("sort") : Sort_int(c, s)
    \/ \E c \in Ctx, s \in EngineResult("sort") : Sort_real(c, s)
    \/ \E c \in Ctx, s \in EngineResult("sort") : Sort_bitvector(c, s)
    \/ \E c \in Ctx, d, r \in LiveOf("Sort"), s \in EngineResult("sort") :
          Sort_array(c, d, r, s)
    \/ \E c \in Ctx, e \in LiveOf("Sort"), s \in EngineResult("sort") :
          Sort_set(c, e, s)
    \/ \E c, sc \in Ctx, s \in EngineResult("sort") :
          Drift(c, s) < MaxDrift /\ Sort_uninterpreted(c, sc, s)
    \/ \E w \in LiveOf("Sort") : Sort_drop(w)

SpecSort == Init /\ [][NextSort]_vars

\* ------------------------------------------------------------------ claims
RECURSIVE CountRc(_, _, _, _)
\* The calls of `log` with a function of `fns` on handle h of context c.
CountRc(log, fns, c, h) ==
    IF log = <<>> THEN 0
    ELSE (IF Head(log).fn \in fns /\ Head(log).ctx = c /\ Head(log).h = h
          THEN 1 ELSE 0) + CountRc(Tail(log), fns, c, h)

RcKeys == DOMAIN rc \cup {<<w.ctx, w.h>> : w \in Live}

TagOf(kind) ==
    CASE kind = "Ast" -> "ast"
      [] kind = "Sort" -> "sort"
      [] kind = "Pattern" -> "pattern"
      [] kind = "Params" -> "params"
      [] kind = "ParamDescrs" -> "param_descrs"
      [] kind = "Stats" -> "stats"
      [] kind = "Optimize" -> "optimize"
      [] OTHER -> "none"

C1Kinds == {"Ast", "Pattern", "Params", "ParamDescrs", "Stats", "Optimize"}

C1Tags == {TagOf(k) : k \in C1Kinds}

\* C1: for every handle of an Ast, Pattern, Params, ParamDescrs, Stats or
\* Optimize, the increments issued minus the decrements issued equal the
\* number of live wrappers owning it; an operation that returns such a
\* wrapper issued exactly one increment and no decrement on its handle, and
\* dropping one issues exactly one decrement and nothing else.
C1_RefCountBalance ==
    /\ \A k \in RcKeys :
          k[2][1] \in C1Tags => RcGet(rc, k) = Owners(k[1], k[2])
    /\ \A i \in DOMAIN lastOp.res :
          LET w == lastOp.res[i]
          IN  w.kind \in C1Kinds =>
                 /\ CountRc(lastOp.log, IncFns, w.ctx, w.h) = 1
                 /\ CountRc(lastOp.log, DecFns, w.ctx, w.h) = 0
    /\ lastOp.op \in {k \o "::drop" : k \in C1Kinds} =>
          /\ Len(lastOp.log) = 1
          /\ CountRc(lastOp.log, DecFns, lastOp.w.ctx, lastOp.w.h) = 1

\* An Ast was constructed and cloned and one of the two owners dropped: the
\* other still owns the handle, counted once.
C1_Witness ==
    /\ lastOp.op = "Ast::drop"
    /\ Owners(lastOp.w.ctx, lastOp.w.h) = 1
    /\ RcGet(rc, <<lastOp.w.ctx, lastOp.w.h>>) = 1

\* C2: every primitive Sort constructor increments the handle it wraps once
\* and dropping the Sort decrements it once, so the net count on a sort
\* handle equals the number of live Sort wrappers for it and is never
\* negative.
C2_SortBalance ==
    /\ \A k \in RcKeys :
          k[2][1] = "sort" =>
             RcGet(rc, k) = Owners(k[1], k[2]) /\ RcGet(rc, k) >= 0
    /\ \A i \in DOMAIN lastOp.res :
          LET w == lastOp.res[i]
          IN  w.kind = "Sort" => CountRc(lastOp.log, IncFns, w.ctx, w.h) = 1

MultiHandleOps ==
    {"Ast::binop", "Ast::binop_bool", "Ast::trinop", "Ast::varop", "Ast::eq",
     "Sort::eq", "Ast::forall_const", "Ast::forall_const_weight_patterns",
     "Ast::exists_const", "Pattern::new", "Sort::enumeration",
     "DatatypeBuilder::variant", "Params::set_bool", "Params::set_symbol",
     "Params::validate"}

\* C3: an operation on two or more handles whose operands do not all share
\* one Context stops at an assertion, and no such operation passes the
\* engine handles of a Context other than the one it calls the engine with.
C3_ContextContainment ==
    lastOp.op \in MultiHandleOps =>
        /\ Cardinality(lastOp.cs) > 1 => ~lastOp.ok
        /\ \A i \in DOMAIN lastOp.log :
              lastOp.log[i].owners \subseteq {lastOp.log[i].ctx}

\* C4: no live wrapper holds a null handle.
C4_NoNullHandle == \A w \in Live : w.h # NULL

\* C5: Z3_del_context is called on a Context exactly once, when it is
\* dropped; no wrapper is alive in a dropped Context, and no operation calls
\* the engine with a dropped Context.
C5_ContextReleasedLast ==
    /\ \A c \in Ctx :
          ctxs[c].dels = IF ctxs[c].state = "dropped" THEN 1 ELSE 0
    /\ \A w \in Live : ctxs[w.ctx].state = "live"
    /\ \A i \in DOMAIN lastOp.log :
          lastOp.log[i].fn # "Z3_del_context" =>
             ctxs[lastOp.log[i].ctx].state = "live"

\* A Context has just been dropped while the other one still has children.
C5_Witness ==
    /\ lastOp.op = "Context::drop"
    /\ \E c \in Ctx : ctxs[c].state = "dropped" /\ ctxs[c].dels = 1
    /\ Live # {}

\* C6: a translate that returns wraps one handle in dest and issues exactly
\* one increment, on that handle in dest; the source wrapper, its handle, its
\* Context and its count are as before.  Dropping an Ast changes the count
\* of its own handle only.
C6_TranslateIndependent ==
    [][/\ (lastOp'.op = "Ast::translate" /\ lastOp'.ok) =>
            LET src == lastOp'.w
                dst == lastOp'.res[1]
            IN  /\ Len(lastOp'.res) = 1
                /\ dst.kind = "Ast" /\ dst.ctx # src.ctx
                /\ dst.ctx \in lastOp'.cs
                /\ rc' = RcAdd(rc, <<dst.ctx, dst.h>>, 1)
                /\ RcGet(rc', <<src.ctx, src.h>>) = RcGet(rc, <<src.ctx, src.h>>)
                /\ CopiesIn(src, wrappers) >= 1
                /\ CopiesIn(src, wrappers') = CopiesIn(src, wrappers)
       /\ lastOp'.op = "Ast::drop" =>
            rc' = RcAdd(rc, <<lastOp'.w.ctx, lastOp'.w.h>>, -1)
      ]_vars

\* A term was translated: source and translation are both alive, each
\* counted once in its own Context.
C6_Witness ==
    /\ lastOp.op = "Ast::translate" /\ lastOp.ok
    /\ lastOp.w \in Live
    /\ lastOp.res[1].ctx # lastOp.w.ctx
    /\ RcGet(rc, <<lastOp.w.ctx, lastOp.w.h>>) = 1
    /\ RcGet(rc, <<lastOp.res[1].ctx, lastOp.res[1].h>>) = 1

QuantifierFns == {"Z3_mk_forall_const", "Z3_mk_exists_const"}

\* C7: forall_const, forall_const_weight_patterns and exists_const with no
\* bound variables never call the engine's quantifier constructors; with
\* operands of one Context they return, whatever the weight and patterns,
\* and what they return is a clone of the body: its handle in its Context,
\* incremented once.
C7_QuantifierShortCircuit ==
    (/\ lastOp.op \in {"Ast::forall_const", "Ast::forall_const_weight_patterns",
                       "Ast::exists_const"}
     /\ lastOp.n = 0) =>
        /\ \A i \in DOMAIN lastOp.log : lastOp.log[i].fn \notin QuantifierFns
        /\ lastOp.ok <=> Cardinality(lastOp.cs) = 1
        /\ lastOp.ok =>
              /\ lastOp.res = <<W("Ast", lastOp.w.ctx, lastOp.w.h)>>
              /\ lastOp.log = <<Inc("Z3_inc_ref", lastOp.w.ctx, lastOp.w.h)>>

\* forall_const_weight_patterns returned the body for no bound variables.
C7_Witness ==
    /\ lastOp.op = "Ast::forall_const_weight_patterns"
    /\ lastOp.n = 0 /\ lastOp.ok
    /\ CopiesIn(lastOp.w, wrappers) = 2

\* The staged variants with a field.
WithFields == {k \in DOMAIN staged : Len(staged[k].fields) > 0}

\* C8: after finish() the Datatype has one DatatypeVariant per variant()
\* call, in call order: the k-th holds the declarations of the descriptor the
\* k-th call staged, with as many accessors as fields were passed to that
\* call, the j-th accessor being the one of the j-th field passed.
C8_VariantOrder ==
    lastOp.op = "DatatypeBuilder::finish" =>
        /\ Len(lastOp.ret.variants) = Len(staged)
        /\ \A k \in DOMAIN staged :
              LET v == lastOp.ret.variants[k]
                  d == staged[k].constructor
              IN  /\ v.constructor.h = <<"decl.constructor", d[2], 0>>
                  /\ v.tester.h = <<"decl.tester", d[2], 0>>
                  /\ Len(v.accessors) = Len(staged[k].fields)
                  /\ Len(descriptors[d].fields) = Len(staged[k].fields)
                  /\ \A j \in DOMAIN staged[k].fields :
                        /\ v.accessors[j].h = <<"decl.accessor", d[2], j>>
                        /\ descriptors[d].fields[j] = staged[k].fields[j].h

\* finish() ran on two staged variants that differ in their fields, the
\* second with two fields of different sorts.
C8_Witness ==
    /\ lastOp.op = "DatatypeBuilder::finish"
    /\ Len(staged) = 2
    /\ Len(staged[1].fields) # Len(staged[2].fields)
    /\ Len(staged[2].fields) = 2
    /\ staged[2].fields[1] # staged[2].fields[2]

\* The positions of `log` that call fn on handle h.
Positions(log, fn, h) ==
    {i \in DOMAIN log : log[i].fn = fn /\ log[i].h = h}

\* The declarations of a DatatypeVariant.
Declarations(v) ==
    {v.constructor, v.tester} \cup {v.accessors[j] : j \in DOMAIN v.accessors}

\* C9: finish() calls Z3_mk_datatype once and increments the sort once,
\* after that call; every staged descriptor is queried once and deleted once,
\* the query after Z3_mk_datatype and the deletion after the query; each
\* declaration recovered from a descriptor is incremented once, after the
\* query of its descriptor; afterwards no staged descriptor is left alive.
C9_FinishOrdering ==
    lastOp.op = "DatatypeBuilder::finish" =>
        LET log == lastOp.log
            dt == lastOp.ret
            mk == Positions(log, "Z3_mk_datatype", dt.sort.h)
        IN  /\ Cardinality({i \in DOMAIN log : log[i].fn = "Z3_mk_datatype"}) = 1
            /\ Cardinality(mk) = 1
            /\ CountRc(log, IncFns, dt.ctx, dt.sort.h) = 1
            /\ \A i \in Positions(log, "Z3_inc_ref", dt.sort.h) :
                  \A m \in mk : m < i
            /\ Cardinality({i \in DOMAIN log :
                               log[i].fn = "Z3_del_constructor"}) = Len(staged)
            /\ Cardinality({i \in DOMAIN log :
                               log[i].fn = "Z3_query_constructor"}) = Len(staged)
            /\ \A k \in DOMAIN staged :
                  LET d == staged[k].constructor
                      query == Positions(log, "Z3_query_constructor", d)
                      del == Positions(log, "Z3_del_constructor", d)
                  IN  /\ Cardinality(query) = 1
                      /\ Cardinality(del) = 1
                      /\ \A q \in query :
                            /\ \A m \in mk : m < q
                            /\ \A r \in del : q < r
                            /\ \A w \in Declarations(dt.variants[k]) :
                                  /\ CountRc(log, IncFns, w.ctx, w.h) = 1
                                  /\ \A i \in Positions(log, "Z3_inc_ref", w.h) :
                                        q < i
                      /\ ~descriptors[d].live

\* finish() ran on two staged variants, one of them with a field.
C9_Witness ==
    /\ lastOp.op = "DatatypeBuilder::finish"
    /\ Len(staged) = 2
    /\ WithFields # {}
    /\ \A d \in DOMAIN descriptors : ~descriptors[d].live

\* C10: Sort::enumeration with N names, all of the sort's Context, returns N
\* constants and N testers and issues 1 + 2N increments: the sort's, then
\* one per constant, then one per tester, each on the handle of the wrapper
\* returned at that place; every handle the engine produced is incremented
\* exactly once.
C10_EnumerationIncrements ==
    (lastOp.op = "Sort::enumeration" /\ lastOp.ok) =>
        LET N == lastOp.n
            r == lastOp.ret
            incs == SelectSeq(lastOp.log, LAMBDA call : call.fn \in IncFns)
        IN  /\ Len(r.consts) = N
            /\ Len(r.testers) = N
            /\ Len(incs) = 1 + 2 * N
            /\ incs[1] = Inc("Z3_inc_ref", r.sort.ctx, r.sort.h)
            /\ \A i \in 1..N :
                  /\ incs[1 + i] = Inc("Z3_inc_ref", r.sort.ctx, r.consts[i].h)
                  /\ incs[1 + N + i] =
                        Inc("Z3_inc_ref", r.sort.ctx, r.testers[i].h)
            /\ \A i \in DOMAIN lastOp.res :
                  lastOp.res[i].h # NULL =>
                     CountRc(lastOp.log, IncFns, lastOp.res[i].ctx,
                             lastOp.res[i].h) = 1
            /\ \A i \in DOMAIN lastOp.log :
                  lastOp.log[i].fn \notin DecFns

\* An enumeration of two names was built on a sort the engine produced.
C10_Witness ==
    /\ lastOp.op = "Sort::enumeration" /\ lastOp.ok
    /\ lastOp.n = 2
    /\ lastOp.ret.sort.h # NULL
    /\ Len(lastOp.ret.testers) = 2

\* What a model gives for a tester applied to the value of a constant of an
\* enumeration: true for the constant of the tester's own variant of its own
\* sort, false for any other.
TesterOnConst(tester, const) ==
    /\ tester[1] = "decl.enum_tester" /\ const[1] = "decl.enum_const"
    /\ tester[2] = const[2]
    /\ tester[3] = const[3]

\* C11: the constants and testers Sort::enumeration returns for an
\* enumeration sort of N names are index-aligned: the j-th constant is the
\* one the engine made for the j-th name, and in a model the i-th tester
\* applied to the value of the j-th constant is true when i = j and false
\* when i # j.
C11_EnumerationAligned ==
    (/\ lastOp.op = "Sort::enumeration" /\ lastOp.ok
     /\ lastOp.ret.sort.h # NULL) =>
        \A i, j \in 1..lastOp.n :
           /\ lastOp.ret.consts[j].h = EnumConst(lastOp.ret.sort.h, j)
           /\ TesterOnConst(lastOp.ret.testers[i].h, lastOp.ret.consts[j].h)
                 <=> (i = j)

\* An enumeration of two names: two constants and two different testers.
C11_Witness ==
    /\ lastOp.op = "Sort::enumeration" /\ lastOp.ok
    /\ lastOp.n = 2
    /\ lastOp.ret.testers[1].h # NULL
    /\ lastOp.ret.testers[1] # lastOp.ret.testers[2]
    /\ TesterOnConst(lastOp.ret.testers[2].h, lastOp.ret.consts[2].h)

\* The constraints and objectives the calls of a trail amount to.
TrailHard(trail) ==
    {trail[i][2] : i \in {j \in DOMAIN trail : trail[j][1] = "assert"}}

TrailObjectives(trail) ==
    SelectSeq(trail, LAMBDA t : t[1] \in {"maximize", "minimize"})

\* C12: while pop was never called without a push standing, the engine holds
\* exactly the assertions and objectives called on the Optimize object and
\* not undone by a pop, so a pop leaves exactly what stood at its push; every
\* backtracking point holds what stood at its push; and a check never
\* answers satisfiable for contradicting assertions nor unsatisfiable for
\* consistent ones (after A, push, B, pop the check is on A alone).
C12_PushPopRestores ==
    ~optimizer.violated =>
        /\ optimizer.hard = TrailHard(optimizer.trail)
        /\ optimizer.objectives = TrailObjectives(optimizer.trail)
        /\ Len(optimizer.scopes) = Cardinality(Marks(optimizer.trail))
        /\ \A i \in Marks(optimizer.trail) :
              LET k == Cardinality({j \in Marks(optimizer.trail) : j <= i})
                  before == SubSeq(optimizer.trail, 1, i - 1)
              IN  /\ k \in DOMAIN optimizer.scopes
                  /\ optimizer.scopes[k].hard = TrailHard(before)
                  /\ optimizer.scopes[k].objectives = TrailObjectives(before)
        /\ lastOp.op = "Optimize::check" =>
              /\ optimizer.last = "Z3_L_TRUE" =>
                    Satisfiable(TrailHard(optimizer.trail))
              /\ optimizer.last = "Z3_L_FALSE" =>
                    ~Satisfiable(TrailHard(optimizer.trail))
              /\ lastOp.ret = TRUE =>
                    Satisfiable(TrailHard(optimizer.trail))

\* A was asserted, then push, B, maximize and pop: the check after the pop
\* is on A alone and satisfiable.
C12_Witness ==
    /\ lastOp.op = "Optimize::check" /\ lastOp.ret = TRUE
    /\ ~optimizer.violated
    /\ optimizer.hard = {TermA}
    /\ optimizer.objectives = <<>>
    /\ optimizer.undone = <<<<"assert", TermB>>, <<"maximize", TermX>>>>

\* C13: a pop called with no push standing does not return: execution stops
\* at that call.
C13_PopStops ==
    [][(Marks(optimizer.trail) = {} /\ lastOp'.op = "Optimize::pop")
          => ~lastOp'.ok]_vars

\* C14: check reports satisfiable exactly when the engine answered true, and
\* what it returns tells the engine's three answers apart.
C14_CheckThreeValued ==
    lastOp.op = "Optimize::check" =>
        /\ lastOp.ret = TRUE <=> optimizer.last = "Z3_L_TRUE"
        /\ \A r \in Z3_lbool \ {optimizer.last} : CheckReturn(r) # lastOp.ret

\* C15: get_model returns a Model exactly when the most recent check on the
\* Optimize object answered satisfiable and nothing was asserted, added as
\* an objective, pushed or popped since; in every other state it is fatal
\* and returns nothing.
C15_ModelOnlyWhenFresh ==
    lastOp.op = "Optimize::get_model" =>
        /\ lastOp.ok <=> (optimizer.last = "Z3_L_TRUE" /\ ~optimizer.stale)
        /\ lastOp.ok => /\ Len(lastOp.res) = 1
                        /\ lastOp.res[1].kind = "Model"
                        /\ lastOp.res[1].h # NULL
        /\ ~lastOp.ok => lastOp.res = <<>>

\* get_model returned a Model after a satisfiable check with constraints
\* standing; and was fatal elsewhere.
C15_Witness ==
    /\ lastOp.op = "Optimize::get_model" /\ lastOp.ok
    /\ optimizer.hard # {}
    /\ Len(optimizer.scopes) > 0

ConversionOps ==
    {"Ast::as_bool", "Ast::as_i32", "Ast::as_u32", "Ast::as_i64",
     "Ast::as_u64", "Ast::as_isize", "Ast::as_usize", "Ast::as_real"}

\* The value a conversion owes for term t: the numeral's value at the target
\* type when t is a numeral of the kind that fits it, nothing otherwise.
Expected(op, t, limbs) ==
    IF op = "Ast::as_bool"
    THEN (IF t.kind = "bool" THEN Some(t.value) ELSE None)
    ELSE IF op = "Ast::as_real"
    THEN SomeIf(Z3_get_numeral_small(t))
    ELSE IF t.kind # "int" THEN None
    ELSE IF op \in {"Ast::as_i32", "Ast::as_i64", "Ast::as_isize"}
    THEN LET k == IF op = "Ast::as_i32" THEN 2
                  ELSE IF op = "Ast::as_i64" THEN 4 ELSE limbs
         IN  IF Fits(t, k, TRUE) THEN Some(Bits(t, k)) ELSE None
    ELSE LET k == IF op = "Ast::as_u32" THEN 2
                  ELSE IF op = "Ast::as_u64" THEN 4 ELSE limbs
         IN  IF Fits(t, k, FALSE) THEN Some(Bits(t, k)) ELSE None

\* C16: every as_* conversion returns, without aborting: the value when the
\* term is a numeral of the kind that fits the target type, nothing otherwise.
C16_ConversionsNeverAbort ==
    lastOp.op \in ConversionOps =>
        /\ lastOp.ok
        /\ lastOp.ret = Expected(lastOp.op, TermOf(lastOp.w.h), PointerLimbs)

\* C17: a variadic operation that returns made one engine call whose list is
\* the receiver followed by `other` in order and whose count is 1 + the length
\* of `other`, not truncated; when that count exceeds 2^32 - 1 the operation
\* aborts with no engine call.
C17_VariadicListAndCount ==
    lastOp.op \in DOMAIN VarOps \cup DOMAIN PbOps =>
        LET other == lastOp.n
            fits == Fits(ToInt(AddOne(other.len), FALSE), 2, FALSE)
        IN  IF fits
            THEN /\ Len(lastOp.log) >= 1
                 /\ lastOp.log[1].args.head[1] = lastOp.w.h
                 /\ \A j \in DOMAIN other.head :
                       lastOp.log[1].args.head[j + 1] = other.head[j].h
                 /\ Len(lastOp.log[1].args.head) = 1 + Len(other.head)
                 /\ Widen(lastOp.log[1].num_args, 4) = AddOne(other.len)
            ELSE ~lastOp.ok /\ lastOp.log = <<>>

C17_Witness ==
    /\ lastOp.op = "pb_ge" /\ lastOp.ok
    /\ lastOp.n.len = <<65534, 65535, 0, 0>>

\* C18 as stated: terms of one context are equal exactly when their texts
\* are identical.
C18_EqualIffSameText ==
    (lastOp.op = "Ast::eq" /\ Cardinality(lastOp.cs) = 1) =>
        (lastOp.ret <=> Z3_ast_to_string(TermOf(lastOp.w.h))
                        = Z3_ast_to_string(TermOf(lastOp.log[1].h)))

\* C18 amended: terms of one context that compare equal have identical texts
\* and feed the same value to the hasher, and a term and its clone (the same
\* handle) compare equal; identical text alone does not make terms equal.
C18_EqualImpliesSameTextAndHash ==
    (lastOp.op = "Ast::eq" /\ Cardinality(lastOp.cs) = 1) =>
        LET a == TermOf(lastOp.w.h)
            b == TermOf(lastOp.log[1].h)
        IN  /\ lastOp.ret =>
                  /\ Z3_ast_to_string(a) = Z3_ast_to_string(b)
                  /\ Z3_get_ast_hash(a) = Z3_get_ast_hash(b)
            /\ lastOp.w.h = lastOp.log[1].h => lastOp.ret

\* Two distinct terms were compared, and a term with a live clone was.
C18_Witness ==
    /\ lastOp.op = "Ast::eq" /\ lastOp.ret
    /\ CopiesIn(lastOp.w, wrappers) = 2

\* The engine's reading of a datatype's declarations: the value a
\* constructor builds, what an accessor yields on it, whether a tester holds.
Build(constructor, args) == [decl |-> constructor, args |-> args]

AccessorOn(accessor, value) ==
    IF /\ accessor[1] = "decl.accessor"
       /\ value.decl = <<"decl.constructor", accessor[2], 0>>
       /\ accessor[3] \in DOMAIN value.args
    THEN value.args[accessor[3]]
    ELSE <<"unspecified">>

TesterOn(tester, value) ==
    /\ tester[1] = "decl.tester" /\ value.decl[1] = "decl.constructor"
    /\ tester[2] = value.decl[2]

\* C19: in a finished Datatype, for every variant k: accessors[j] of k on a
\* value built by k's constructor is the j-th argument, and the tester of a
\* variant holds of that value exactly when the variant is k.
C19_DatatypeRoundTrip ==
    (/\ lastOp.op = "DatatypeBuilder::finish" /\ lastOp.ok
     /\ lastOp.ret.sort.h # NULL) =>
        LET variants == lastOp.ret.variants
        IN  \A k \in DOMAIN variants :
               LET args == [j \in DOMAIN variants[k].accessors |-> <<"arg", j>>]
                   value == Build(variants[k].constructor.h, args)
               IN  /\ \A j \in DOMAIN args :
                         AccessorOn(variants[k].accessors[j].h, value) = args[j]
                   /\ \A i \in DOMAIN variants :
                         TesterOn(variants[i].tester.h, value) <=> (i = k)

\* A Datatype of two variants, one of them with two fields.
C19_Witness ==
    /\ lastOp.op = "DatatypeBuilder::finish" /\ lastOp.ok
    /\ lastOp.ret.sort.h # NULL
    /\ Len(lastOp.ret.variants) = 2
    /\ Len(lastOp.ret.variants[2].accessors) = 2
    /\ Len(lastOp.ret.variants[1].accessors) = 0

\* i mod 2^n for a small integer i and width n <= 16 or n = 32, as the
\* engine's integer; and its signed representative.
ModPow2(i, n) ==
    IF n <= 16
    THEN [kind |-> "int", neg |-> FALSE, mag |-> <<i % (2 ^ n), 0, 0, 0>>]
    ELSE [kind |-> "int", neg |-> FALSE,
          mag |-> IF i >= 0 THEN <<i, 0, 0, 0>> ELSE <<65536 + i, 65535, 0, 0>>]

SignedModPow2(i, n) ==
    IF n <= 16
    THEN LET u == i % (2 ^ n)
             v == IF u >= 2 ^ (n - 1) THEN u - 2 ^ n ELSE u
         IN  [kind |-> "int", neg |-> v < 0,
              mag |-> <<IF v < 0 THEN 0 - v ELSE v, 0, 0, 0>>]
    ELSE [kind |-> "int", neg |-> i < 0,
          mag |-> <<IF i < 0 THEN 0 - i ELSE i, 0, 0, 0>>]

\* C20: bv2int(false) of int2bv(n) of the integer i evaluates to i mod 2^n,
\* and bv2int(true) to the two's complement representative of i mod 2^n.
C20_Int2BvBv2Int ==
    (/\ lastOp.op = "Ast::bv2int" /\ lastOp.ok
     /\ TermOf(lastOp.w.h).arg.kind = "int") =>
        LET t == TermOf(lastOp.res[1].h)
            x == t.arg.arg
            i == IF x.neg THEN 0 - x.mag[1] ELSE x.mag[1]
            n == t.arg.n[1]
        IN  Eval(t) = IF lastOp.n THEN SignedModPow2(i, n) ELSE ModPow2(i, n)

\* The example: i = -3, n = 32, signed, evaluating to -3; and a value that
\* the width cuts.
C20_Witness ==
    /\ lastOp.op = "Ast::bv2int" /\ lastOp.ok
    /\ lastOp.n
    /\ TermOf(lastOp.res[1].h).arg.n = <<32, 0>>
    /\ TermOf(lastOp.res[1].h).arg.arg =
          [kind |-> "int", neg |-> TRUE, mag |-> <<3, 0, 0, 0>>]
    /\ Eval(TermOf(lastOp.res[1].h)) =
          [kind |-> "int", neg |-> TRUE, mag |-> <<3, 0, 0, 0>>]

\* C21: a variant() call that returns appends one (field count, descriptor)
\* entry at the end of the staged list and leaves the entries before it as
\* they were; it issues no reference-count increment or decrement and creates
\* no wrapper (no sort, no declaration); it runs only on a builder that is
\* building, and a builder becomes finished by finish() alone.
C21_VariantFrame ==
    [][/\ (lastOp'.op = "DatatypeBuilder::variant" /\ lastOp'.ok) =>
             /\ builder.state = "building" /\ builder'.state = "building"
             /\ Len(builder'.variants) = Len(builder.variants) + 1
             /\ SubSeq(builder'.variants, 1, Len(builder.variants))
                   = builder.variants
             /\ builder'.variants[Len(builder'.variants)][1] = lastOp'.n
             /\ builder'.variants[Len(builder'.variants)][2]
                   \notin DOMAIN descriptors
             /\ \A i \in DOMAIN lastOp'.log :
                   lastOp'.log[i].fn \notin IncFns \cup DecFns
             /\ lastOp'.res = <<>>
             /\ wrappers' = wrappers /\ rc' = rc
       /\ (builder.state # "finished" /\ builder'.state = "finished") =>
             /\ builder.state = "building"
             /\ lastOp'.op = "DatatypeBuilder::finish"
       /\ builder.state = "finished" => builder' = builder]_vars

\* A second variant() was staged behind a first one.
C21_Witness ==
    /\ lastOp.op = "DatatypeBuilder::variant" /\ lastOp.ok
    /\ Len(builder.variants) = 2
    /\ builder.variants[1][1] # builder.variants[2][1]

\* C22: when pb_le, pb_ge or pb_eq calls the engine, the term count it
\* passes does not exceed the number of coefficients in the array it passes.
C22_CoefficientPerTerm ==
    (lastOp.op \in DOMAIN PbOps /\ lastOp.log # <<>>) =>
        /\ lastOp.log[1].num_args[2] = 0
        /\ lastOp.log[1].num_args[1] <= Len(lastOp.log[1].rest[1])

\* C23: a Pattern::new call that returns a Pattern was given at least one
\* term.
C23_PatternNonEmpty ==
    (lastOp.op = "Pattern::new" /\ lastOp.ok /\ lastOp.res # <<>>) =>
        lastOp.n >= 1

\* C24: once the builder has ceased to exist, by finish() or by being dropped
\* without finish(), no descriptor that variant() created is still alive.
C24_NoDescriptorOutlivesBuilder ==
    builder.state \in {"finished", "dropped"} =>
        \A d \in DOMAIN descriptors : ~descriptors[d].live

====
